---- MODULE Spec2Model ----
(***************************************************************************)
(* Model of the quantum state-vector engine of eigenvue                    *)
(* (python/src/eigenvue/math_utils/quantum_math.py) and of the four step   *)
(* generators that drive it (generators/quantum/*.py).                     *)
(*                                                                         *)
(* NUMBERS.  The code computes with IEEE doubles.  The model computes with *)
(* exact real numbers of the field Q(sqrt2, g), g = sqrt(2 + sqrt2) =      *)
(* 2*cos(pi/8), which contains every value the code produces from the      *)
(* |0..0> state with the gate library at angles that are multiples of pi/4 *)
(* and from Bloch angles that are multiples of pi/4 (theta) and pi/8 (phi).*)
(* A real is <<a, b, c, d, k>> = (a + b*sqrt2 + c*g + d*g*sqrt2) / 2^k in  *)
(* lowest terms.  Rounding error of doubles is outside the model; the      *)
(* tolerances of the code (1e-9, 1e-10) are compared exactly.              *)
(*                                                                         *)
(* ANGLES are integers counting units of pi/8.                             *)
(***************************************************************************)
EXTENDS Integers, Sequences, FiniteSets, TLC

(***************************************************************************)
(* Exact real arithmetic standing for Python float arithmetic              *)
(***************************************************************************)

RECURSIVE Pow2(_)
Pow2(n) == IF n <= 0 THEN 1 ELSE 2 * Pow2(n - 1)

AllEven(x) == x[1] % 2 = 0 /\ x[2] % 2 = 0 /\ x[3] % 2 = 0 /\ x[4] % 2 = 0

\* lowest terms: the numerators are not all even (the exponent may be negative)
RECURSIVE RNorm(_)
RNorm(x) ==
    IF x[1] = 0 /\ x[2] = 0 /\ x[3] = 0 /\ x[4] = 0
    THEN <<0, 0, 0, 0, 0>>
    ELSE IF AllEven(x)
    THEN RNorm(<<x[1] \div 2, x[2] \div 2, x[3] \div 2, x[4] \div 2, x[5] - 1>>)
    ELSE x

RInt(n) == RNorm(<<n, 0, 0, 0, 0>>)
RZero == RInt(0)
ROne == RInt(1)

\* x * 2^(-n)
RShift(x, n) == RNorm(<<x[1], x[2], x[3], x[4], x[5] + n>>)

RNeg(x) == <<-x[1], -x[2], -x[3], -x[4], x[5]>>

RAdd(x, y) ==
    LET k == IF x[5] >= y[5] THEN x[5] ELSE y[5]
        fx == Pow2(k - x[5])
        fy == Pow2(k - y[5])
    IN  IF x = <<0, 0, 0, 0, 0>> THEN y
        ELSE IF y = <<0, 0, 0, 0, 0>> THEN x
        ELSE RNorm(<<fx * x[1] + fy * y[1], fx * x[2] + fy * y[2],
                     fx * x[3] + fy * y[3], fx * x[4] + fy * y[4], k>>)

RSub(x, y) == RAdd(x, RNeg(y))

\* (p1 + q1*g)(p2 + q2*g) with p, q in Z[sqrt2] and g^2 = 2 + sqrt2
RMul(x, y) ==
    LET \* p1*p2
        ppA == x[1] * y[1] + 2 * x[2] * y[2]
        ppB == x[1] * y[2] + x[2] * y[1]
        \* q1*q2
        qqA == x[3] * y[3] + 2 * x[4] * y[4]
        qqB == x[3] * y[4] + x[4] * y[3]
        \* q1*q2*(2 + sqrt2)
        ggA == 2 * qqA + 2 * qqB
        ggB == qqA + 2 * qqB
        \* p1*q2 + q1*p2
        pqA == x[1] * y[3] + 2 * x[2] * y[4] + x[3] * y[1] + 2 * x[4] * y[2]
        pqB == x[1] * y[4] + x[2] * y[3] + x[3] * y[2] + x[4] * y[1]
    IN  RNorm(<<ppA + ggA, ppB + ggB, pqA, pqB, x[5] + y[5]>>)

\* sign of a + b*sqrt2
Sign2(a, b) ==
    IF a = 0 /\ b = 0 THEN 0
    ELSE IF a >= 0 /\ b >= 0 THEN 1
    ELSE IF a <= 0 /\ b <= 0 THEN -1
    ELSE IF a > 0 THEN (IF a * a > 2 * b * b THEN 1 ELSE -1)
    ELSE (IF 2 * b * b > a * a THEN 1 ELSE -1)

\* sign of (a + b*sqrt2) + (c + d*sqrt2)*g
RSign(x) ==
    LET sp == Sign2(x[1], x[2])
        sq == Sign2(x[3], x[4])
        p2A == x[1] * x[1] + 2 * x[2] * x[2]
        p2B == 2 * x[1] * x[2]
        q2A == x[3] * x[3] + 2 * x[4] * x[4]
        q2B == 2 * x[3] * x[4]
        \* p^2 - q^2 * (2 + sqrt2)
        dA == p2A - (2 * q2A + 2 * q2B)
        dB == p2B - (q2A + 2 * q2B)
    IN  IF sq = 0 THEN sp
        ELSE IF sp = 0 THEN sq
        ELSE IF sp = sq THEN sp
        ELSE IF Sign2(dA, dB) > 0 THEN sp ELSE sq

RLt(x, y) == RSign(RSub(x, y)) < 0
RLe(x, y) == RSign(RSub(x, y)) <= 0
RAbs(x) == IF RSign(x) < 0 THEN RNeg(x) ELSE x
RMin(x, y) == IF RLt(y, x) THEN y ELSE x
RMax(x, y) == IF RLt(x, y) THEN y ELSE x

Abs(n) == IF n < 0 THEN -n ELSE n

\* sign of x - 1; a value whose numerators are below 2^28 over a denominator
\* of 2^31 or more is below 1/2
CmpOne(x) ==
    IF x[5] >= 31 /\ Abs(x[1]) + Abs(x[2]) + Abs(x[3]) + Abs(x[4]) < Pow2(28)
    THEN -1
    ELSE RSign(RSub(x, ROne))

\* sign of x - 10^(-e): the comparison of a float with a literal such as 1e-10
RECURSIVE CmpTenPow(_, _)
CmpTenPow(x, e) ==
    IF RSign(x) <= 0 THEN -1
    ELSE IF e = 0 THEN CmpOne(x)
    ELSE IF CmpOne(x) >= 0 THEN 1
    ELSE CmpTenPow(RMul(RInt(10), x), e - 1)

\* sqrt2^(-j)
RSqrtHalfPow(j) ==
    IF j % 2 = 0 THEN <<1, 0, 0, 0, j \div 2>>
    ELSE <<0, 1, 0, 0, (j + 1) \div 2>>

Gamma == <<0, 0, 1, 0, 0>>
Delta == <<0, 0, -1, 1, 0>>

\* the largest power of sqrt2 among the named roots
MaxRootExp == 68

\* the non-negative reals whose square root / reciprocal the model can name
RootCands ==
    {RZero} \cup
    {RMul(u, RSqrtHalfPow(j)) : u \in {ROne, Gamma, Delta}, j \in -MaxRootExp .. MaxRootExp}

\* math.sqrt(x)
RSqrt(x) == CHOOSE r \in RootCands : RSign(r) >= 0 /\ RMul(r, r) = x

\* 1.0 / x
RRecip(x) == CHOOSE r \in RootCands : RMul(r, x) = ROne

\* x / n for n a power of two (n = len(state))
RECURSIVE RDivPow2(_, _)
RDivPow2(x, n) == IF n <= 1 THEN x ELSE RDivPow2(RShift(x, 1), n \div 2)

(***************************************************************************)
(* Angles (units of pi/8) and the trigonometric functions on them          *)
(***************************************************************************)

PI == 8
TWO_PI == 2 * PI

CosTab ==
    <<ROne, <<0, 0, 1, 0, 1>>, <<0, 1, 0, 0, 1>>, <<0, 0, -1, 1, 1>>, RZero>>

\* math.cos
Cos(k) ==
    LET m == k % TWO_PI
        f == IF m > PI THEN TWO_PI - m ELSE m
    IN  IF f <= 4 THEN CosTab[f + 1] ELSE RNeg(CosTab[PI - f + 1])

\* math.sin
Sin(k) == Cos(k - 4)

\* math.acos on [0, 1]
Acos(x) == CHOOSE k \in 0 .. PI : Cos(k) = x

\* math.atan2(y, x), range (-pi, pi]
Atan2(y, x) ==
    IF RSign(x) = 0 /\ RSign(y) = 0 THEN 0
    ELSE CHOOSE k \in (1 - PI) .. PI :
            /\ RSign(Cos(k)) = RSign(x)
            /\ RSign(Sin(k)) = RSign(y)
            /\ RMul(x, Sin(k)) = RMul(y, Cos(k))

(***************************************************************************)
(* Constants (quantum_math.py)                                             *)
(***************************************************************************)

\* NORM_TOLERANCE = 1e-9 and EPSILON = 1e-10, as negated decimal exponents
NORM_TOLERANCE_EXP == 9
EPSILON_EXP == 10

ZERO == <<RZero, RZero>>
ONE == <<ROne, RZero>>
IMAG == <<RZero, ROne>>

(***************************************************************************)
(* Complex arithmetic: a complex number is <<re, im>>                      *)
(***************************************************************************)

complex_add(a, b) == <<RAdd(a[1], b[1]), RAdd(a[2], b[2])>>

complex_sub(a, b) == <<RSub(a[1], b[1]), RSub(a[2], b[2])>>

complex_mul(a, b) ==
    <<RSub(RMul(a[1], b[1]), RMul(a[2], b[2])),
      RAdd(RMul(a[1], b[2]), RMul(a[2], b[1]))>>

complex_conj(a) == <<a[1], RNeg(a[2])>>

complex_neg(a) == <<RNeg(a[1]), RNeg(a[2])>>

complex_abs_sq(a) == RAdd(RMul(a[1], a[1]), RMul(a[2], a[2]))

complex_abs(a) == RSqrt(complex_abs_sq(a))

complex_arg(a) == Atan2(a[2], a[1])

complex_exp(phi) == <<Cos(phi), Sin(phi)>>

complex_scale(scalar, z) == <<RMul(scalar, z[1]), RMul(scalar, z[2])>>

complex_approx_equal(a, b, tolExp) ==
    /\ CmpTenPow(RAbs(RSub(a[1], b[1])), tolExp) < 0
    /\ CmpTenPow(RAbs(RSub(a[2], b[2])), tolExp) < 0

(***************************************************************************)
(* Bit operations on basis indices                                         *)
(***************************************************************************)

\* (k >> p) & 1
BitAt(k, p) == (k \div Pow2(p)) % 2

\* k | (1 << p)
OrBit(k, p) == IF BitAt(k, p) = 1 THEN k ELSE k + Pow2(p)

\* k & ~(1 << p)
ClearBit(k, p) == IF BitAt(k, p) = 1 THEN k - Pow2(p) ELSE k

(***************************************************************************)
(* State vectors: functions from 0 .. dim-1 to complex numbers             *)
(***************************************************************************)

Dim(state) == Cardinality(DOMAIN state)

\* variant: state[0] is never set to ONE
ZeroStateValue_unset(num_qubits) ==
    [k \in 0 .. Pow2(num_qubits) - 1 |-> ZERO]

\* the list create_zero_state builds
ZeroStateValue(num_qubits) ==
    LET dim == Pow2(num_qubits)
        state == [k \in 0 .. dim - 1 |-> ZERO]
    IN  [state EXCEPT ![0] = ONE]

create_uniform_superposition(num_qubits) ==
    LET dim == Pow2(num_qubits)
        amp == RRecip(RSqrt(RInt(dim)))
    IN  [k \in 0 .. dim - 1 |-> <<amp, RZero>>]

RECURSIVE SumFrom(_, _, _)
\* total = 0.0; for k in range(i, dim): total += f[k]
SumFrom(f, i, dim) ==
    IF i >= dim THEN RZero ELSE RAdd(f[i], SumFrom(f, i + 1, dim))

measurement_probabilities(state) ==
    [k \in DOMAIN state |-> complex_abs_sq(state[k])]

state_vector_norm_sq(state) ==
    SumFrom(measurement_probabilities(state), 0, Dim(state))

\* TRUE when assert_normalized returns, FALSE when it raises
assert_normalized(state) ==
    ~ (CmpTenPow(RAbs(RSub(state_vector_norm_sq(state), ROne)),
                 NORM_TOLERANCE_EXP) > 0)

\* the probability mass of the indices whose bit at bit_position is bit_val
BitMass(state, bit_position, bit_val) ==
    SumFrom([k \in DOMAIN state |->
                IF BitAt(k, bit_position) = bit_val
                THEN complex_abs_sq(state[k]) ELSE RZero],
            0, Dim(state))

\* variant: qubit q is read from bit q of the index
qubit_probabilities_little_endian(state, qubit, num_qubits) ==
    <<BitMass(state, qubit, 0), BitMass(state, qubit, 1)>>

qubit_probabilities(state, qubit, num_qubits) ==
    LET bit_position == num_qubits - 1 - qubit
    IN  <<BitMass(state, bit_position, 0), BitMass(state, bit_position, 1)>>

\* variant: only an outcome of probability exactly zero is refused
ProjectFails_zero_only(prob) == RSign(prob) <= 0

\* if prob < EPSILON: raise ValueError("Cannot project ...")
ProjectFails(prob) == CmpTenPow(prob, EPSILON_EXP) < 0

\* variant: the surviving amplitudes are copied without rescaling
NormFactor_unit(prob) == ROne

\* norm_factor = 1.0 / math.sqrt(prob)
NormFactor(prob) == RRecip(RSqrt(prob))

\* the computation of project_and_normalize on the value of its input:
\* raised when the ValueError is raised, otherwise the list new_state
ProjectValue(state, qubit, outcome, num_qubits) ==
    LET bit_position == num_qubits - 1 - qubit
        prob == BitMass(state, bit_position, outcome)
    IN  IF ProjectFails(prob)
        THEN [raised |-> TRUE, prob |-> prob]
        ELSE LET norm_factor == NormFactor(prob)
             IN  [raised |-> FALSE, prob |-> prob,
                  new_state |->
                    [k \in DOMAIN state |->
                        IF BitAt(k, bit_position) = outcome
                        THEN complex_scale(norm_factor, state[k])
                        ELSE ZERO]]

(***************************************************************************)
(* Gate matrices: gate[r][c], rows and columns counted from 0              *)
(***************************************************************************)

Mat(rows) ==
    [r \in 0 .. Len(rows) - 1 |->
        [c \in 0 .. Len(rows[r + 1]) - 1 |-> rows[r + 1][c + 1]]]

MINUS_ONE == <<RNeg(ROne), RZero>>

GATE_I == Mat(<< <<ONE, ZERO>>, <<ZERO, ONE>> >>)

GATE_X == Mat(<< <<ZERO, ONE>>, <<ONE, ZERO>> >>)

GATE_Y == Mat(<< <<ZERO, <<RZero, RNeg(ROne)>> >>, <<IMAG, ZERO>> >>)

GATE_Z == Mat(<< <<ONE, ZERO>>, <<ZERO, MINUS_ONE>> >>)

\* _SQRT1_2 = 1.0 / math.sqrt(2.0)
SQRT1_2 == RRecip(RSqrt(RInt(2)))

\* variant: the entries of H are 1 and -1, without the factor 1/sqrt(2)
GATE_H_unscaled ==
    Mat(<< <<ONE, ONE>>, <<ONE, <<RNeg(ROne), RZero>> >> >>)

GATE_H ==
    Mat(<< << <<SQRT1_2, RZero>>, <<SQRT1_2, RZero>> >>,
           << <<SQRT1_2, RZero>>, <<RNeg(SQRT1_2), RZero>> >> >>)

GATE_S == Mat(<< <<ONE, ZERO>>, <<ZERO, IMAG>> >>)

GATE_T == Mat(<< <<ONE, ZERO>>, <<ZERO, <<SQRT1_2, SQRT1_2>> >> >>)

\* theta / 2 for an angle that is a multiple of pi/4
HalfAngle(theta) == theta \div 2

gate_rx(theta) ==
    LET c == Cos(HalfAngle(theta))
        s == Sin(HalfAngle(theta))
    IN  Mat(<< << <<c, RZero>>, <<RZero, RNeg(s)>> >>,
               << <<RZero, RNeg(s)>>, <<c, RZero>> >> >>)

gate_ry(theta) ==
    LET c == Cos(HalfAngle(theta))
        s == Sin(HalfAngle(theta))
    IN  Mat(<< << <<c, RZero>>, <<RNeg(s), RZero>> >>,
               << <<s, RZero>>, <<c, RZero>> >> >>)

gate_rz(theta) ==
    LET c == Cos(HalfAngle(theta))
        s == Sin(HalfAngle(theta))
    IN  Mat(<< << <<c, RNeg(s)>>, ZERO >>,
               << ZERO, <<c, s>> >> >>)

\* Python's None; an optional value is None or <<value>>
None == <<>>

\* name -> matrix, or None when the name is not recognized
get_standard_gate(name, angle) ==
    IF name = "I" THEN GATE_I
    ELSE IF name = "X" THEN GATE_X
    ELSE IF name = "Y" THEN GATE_Y
    ELSE IF name = "Z" THEN GATE_Z
    ELSE IF name = "H" THEN GATE_H
    ELSE IF name = "S" THEN GATE_S
    ELSE IF name = "T" THEN GATE_T
    ELSE IF name = "Rx" /\ angle # None THEN gate_rx(angle[1])
    ELSE IF name = "Ry" /\ angle # None THEN gate_ry(angle[1])
    ELSE IF name = "Rz" /\ angle # None THEN gate_rz(angle[1])
    ELSE None

GATE_CNOT ==
    Mat(<< <<ONE, ZERO, ZERO, ZERO>>, <<ZERO, ONE, ZERO, ZERO>>,
           <<ZERO, ZERO, ZERO, ONE>>, <<ZERO, ZERO, ONE, ZERO>> >>)

GATE_CZ ==
    Mat(<< <<ONE, ZERO, ZERO, ZERO>>, <<ZERO, ONE, ZERO, ZERO>>,
           <<ZERO, ZERO, ONE, ZERO>>, <<ZERO, ZERO, ZERO, MINUS_ONE>> >>)

GATE_SWAP ==
    Mat(<< <<ONE, ZERO, ZERO, ZERO>>, <<ZERO, ZERO, ONE, ZERO>>,
           <<ZERO, ONE, ZERO, ZERO>>, <<ZERO, ZERO, ZERO, ONE>> >>)

\* variant: row 7 is written like row 6, so rows 6 and 7 are equal
GATE_TOFFOLI_rows_equal ==
    [r \in 0 .. 7 |->
        [c \in 0 .. 7 |->
            IF r \in {6, 7} THEN (IF c = 7 THEN ONE ELSE ZERO)
            ELSE IF r = c THEN ONE ELSE ZERO]]

\* _make_toffoli(): the 8x8 identity with rows 6 and 7 replaced
GATE_TOFFOLI ==
    LET m == [r \in 0 .. 7 |-> [c \in 0 .. 7 |-> IF r = c THEN ONE ELSE ZERO]]
        m6 == [m EXCEPT ![6] = [c \in 0 .. 7 |-> IF c = 7 THEN ONE ELSE ZERO]]
    IN  [m6 EXCEPT ![7] = [c \in 0 .. 7 |-> IF c = 6 THEN ONE ELSE ZERO]]

\* two_qubit_gates.get(gate_name) of the generators
two_qubit_gates(name) ==
    IF name = "CNOT" THEN GATE_CNOT
    ELSE IF name = "CZ" THEN GATE_CZ
    ELSE IF name = "SWAP" THEN GATE_SWAP
    ELSE None

(***************************************************************************)
(* Gate application.  The in-place loops are run on a record that carries  *)
(* the vector and the trace of what the loop did: pairs / groups handled,  *)
(* and the reads ("r") and writes ("w") of vector elements in order.       *)
(***************************************************************************)

RECURSIVE SingleLoop(_, _, _, _, _)
\* for i in range(dim): ... of apply_single_qubit_gate, from index i on
SingleLoop(acc, gate, bit_position, i, dim) ==
    IF i >= dim THEN acc
    ELSE IF BitAt(i, bit_position) = 1
    THEN SingleLoop(acc, gate, bit_position, i + 1, dim)
    ELSE
        LET idx0 == i
            idx1 == OrBit(i, bit_position)
            a0 == acc.state[idx0]
            a1 == acc.state[idx1]
            w0 == [acc.state EXCEPT ![idx0] =
                     complex_add(complex_mul(gate[0][0], a0),
                                 complex_mul(gate[0][1], a1))]
            w1 == [w0 EXCEPT ![idx1] =
                     complex_add(complex_mul(gate[1][0], a0),
                                 complex_mul(gate[1][1], a1))]
        IN  SingleLoop([state |-> w1,
                        ops |-> Append(acc.ops, <<idx0, idx1>>),
                        log |-> acc.log \o << <<"r", idx0>>, <<"r", idx1>>,
                                              <<"w", idx0>>, <<"w", idx1>> >>],
                       gate, bit_position, i + 1, dim)

\* variant: qubit 0 is taken to be the least significant bit
RunSingleQubitGate_little_endian(state, gate, qubit, num_qubits) ==
    SingleLoop([state |-> state, ops |-> <<>>, log |-> <<>>],
               gate, qubit, 0, Pow2(num_qubits))

\* the run of apply_single_qubit_gate: final vector and trace
RunSingleQubitGate(state, gate, qubit, num_qubits) ==
    LET dim == Pow2(num_qubits)
        bit_position == num_qubits - 1 - qubit
    IN  SingleLoop([state |-> state, ops |-> <<>>, log |-> <<>>],
                   gate, bit_position, 0, dim)

\* the vector apply_single_qubit_gate leaves in place of state
SingleQubitGateValue(state, gate, qubit, num_qubits) ==
    RunSingleQubitGate(state, gate, qubit, num_qubits).state

RECURSIVE RowSum(_, _, _, _)
\* new_amp = 0; for c in range(0, c + 1): new_amp += gate[r][c] * amps[c]
RowSum(gate, amps, r, c) ==
    IF c < 0 THEN ZERO
    ELSE complex_add(RowSum(gate, amps, r, c - 1),
                     complex_mul(gate[r][c], amps[c]))

RECURSIVE WriteRows(_, _, _, _, _)
\* for r in range(r, 4): state[indices[r]] = sum_c gate[r][c] * amps[c]
WriteRows(state, gate, indices, amps, r) ==
    IF r >= 4 THEN state
    ELSE WriteRows([state EXCEPT ![indices[r]] = RowSum(gate, amps, r, 3)],
                   gate, indices, amps, r + 1)

\* variant: the bitmap is filled in but never consulted
Processed_never(processed, i) == FALSE

\* if processed[i]: continue
Processed(processed, i) == processed[i] = 1

RECURSIVE TwoLoop(_, _, _, _, _, _)
\* for i in range(dim): ... of apply_two_qubit_gate, from index i on
TwoLoop(acc, gate, bit0, bit1, i, dim) ==
    IF i >= dim THEN acc
    ELSE IF Processed(acc.processed, i)
    THEN TwoLoop(acc, gate, bit0, bit1, i + 1, dim)
    ELSE
        LET base == ClearBit(ClearBit(i, bit0), bit1)
            indices == [j \in 0 .. 3 |->
                          IF j = 0 THEN base
                          ELSE IF j = 1 THEN OrBit(base, bit1)
                          ELSE IF j = 2 THEN OrBit(base, bit0)
                          ELSE OrBit(OrBit(base, bit0), bit1)]
            amps == [j \in 0 .. 3 |-> acc.state[indices[j]]]
        IN  TwoLoop([state |-> WriteRows(acc.state, gate, indices, amps, 0),
                     processed |->
                        [k \in DOMAIN acc.processed |->
                            IF \E j \in 0 .. 3 : indices[j] = k
                            THEN 1 ELSE acc.processed[k]],
                     ops |-> Append(acc.ops, base),
                     log |-> acc.log \o
                        [j \in 1 .. 4 |-> <<"r", indices[j - 1]>>] \o
                        [j \in 1 .. 4 |-> <<"w", indices[j - 1]>>]],
                    gate, bit0, bit1, i + 1, dim)

\* the run of apply_two_qubit_gate: final vector, bitmap and trace
RunTwoQubitGate(state, gate, qubit0, qubit1, num_qubits) ==
    LET dim == Pow2(num_qubits)
        bit0 == num_qubits - 1 - qubit0
        bit1 == num_qubits - 1 - qubit1
    IN  TwoLoop([state |-> state,
                 processed |-> [k \in 0 .. dim - 1 |-> 0],
                 ops |-> <<>>, log |-> <<>>],
                gate, bit0, bit1, 0, dim)

\* the vector apply_two_qubit_gate leaves in place of state
TwoQubitGateValue(state, gate, qubit0, qubit1, num_qubits) ==
    RunTwoQubitGate(state, gate, qubit0, qubit1, num_qubits).state

(***************************************************************************)
(* Grover primitives                                                       *)
(***************************************************************************)

RECURSIVE OracleLoop(_, _)
\* for t in targets: state[t] = complex_neg(state[t])
OracleLoop(state, targets) ==
    IF targets = <<>> THEN state
    ELSE OracleLoop(
            [state EXCEPT ![Head(targets)] = complex_neg(state[Head(targets)])],
            Tail(targets))

\* variant: the mean is taken again after the first amplitude was rewritten
DiffusionValue_running_mean(state) ==
    LET n == Dim(state)
        m_re == RDivPow2(SumFrom([k \in DOMAIN state |-> state[k][1]], 0, n), n)
        m_im == RDivPow2(SumFrom([k \in DOMAIN state |-> state[k][2]], 0, n), n)
        first == <<RSub(RMul(RInt(2), m_re), state[0][1]),
                   RSub(RMul(RInt(2), m_im), state[0][2])>>
        s1 == [state EXCEPT ![0] = first]
        mean_re == RDivPow2(SumFrom([k \in DOMAIN s1 |-> s1[k][1]], 0, n), n)
        mean_im == RDivPow2(SumFrom([k \in DOMAIN s1 |-> s1[k][2]], 0, n), n)
    IN  [k \in DOMAIN state |->
            IF k = 0 THEN first
            ELSE <<RSub(RMul(RInt(2), mean_re), state[k][1]),
                   RSub(RMul(RInt(2), mean_im), state[k][2])>>]

\* variant: the reflection is mean - a, without the factor 2
DiffusionValue_single_mean(state) ==
    LET n == Dim(state)
        mean_re == RDivPow2(SumFrom([k \in DOMAIN state |-> state[k][1]], 0, n), n)
        mean_im == RDivPow2(SumFrom([k \in DOMAIN state |-> state[k][2]], 0, n), n)
    IN  [k \in DOMAIN state |->
            <<RSub(mean_re, state[k][1]), RSub(mean_im, state[k][2])>>]

\* the vector apply_grover_diffusion leaves in place of state
DiffusionValue(state) ==
    LET n == Dim(state)
        mean_re == RDivPow2(SumFrom([k \in DOMAIN state |-> state[k][1]], 0, n), n)
        mean_im == RDivPow2(SumFrom([k \in DOMAIN state |-> state[k][2]], 0, n), n)
    IN  [k \in DOMAIN state |->
            <<RSub(RMul(RInt(2), mean_re), state[k][1]),
              RSub(RMul(RInt(2), mean_im), state[k][2])>>]

(***************************************************************************)
(* Bloch sphere                                                            *)
(***************************************************************************)

normalize_angle(angle) ==
    LET result == angle % TWO_PI
    IN  IF result < 0 THEN result + TWO_PI ELSE result

\* state_to_bloch_angles((alpha0, alpha1)) = <<theta, phi>>
state_to_bloch_angles(alpha0, alpha1) ==
    LET abs_alpha0 == RMin(ROne, RMax(RZero, complex_abs(alpha0)))
    IN  IF CmpTenPow(abs_alpha0, EPSILON_EXP) < 0
        THEN <<PI, normalize_angle(complex_arg(alpha1))>>
        ELSE IF CmpTenPow(complex_abs(alpha1), EPSILON_EXP) < 0
        THEN <<0, 0>>
        ELSE <<2 * Acos(abs_alpha0),
               normalize_angle(complex_arg(alpha1) - complex_arg(alpha0))>>

\* bloch_angles_to_state(theta, phi) = <<alpha0, alpha1>>
bloch_angles_to_state(theta, phi) ==
    <<  <<Cos(HalfAngle(theta)), RZero>>,
        complex_scale(Sin(HalfAngle(theta)), complex_exp(phi)) >>

\* bloch_angles_to_state(2^-e, phi) in double precision for e >= 27:
\* math.cos(theta / 2) is 1.0 and math.sin(theta / 2) is theta / 2
bloch_angles_to_state_small(e, phi) ==
    <<  <<ROne, RZero>>,
        complex_scale(RShift(ROne, e + 1), complex_exp(phi)) >>

(***************************************************************************)
(* Verification utilities                                                  *)
(***************************************************************************)

RECURSIVE UnitaryTotal(_, _, _, _)
\* total after the terms k = 0 .. upto-1 of the inner loop of is_unitary
UnitaryTotal(matrix, i, j, upto) ==
    IF upto = 0 THEN ZERO
    ELSE complex_add(UnitaryTotal(matrix, i, j, upto - 1),
                     complex_mul(matrix[i][upto - 1],
                                 complex_conj(matrix[j][upto - 1])))

\* is_unitary(matrix) with the default tolerance
is_unitary(matrix) ==
    LET d == Cardinality(DOMAIN matrix)
    IN  \A i \in 0 .. d - 1 : \A j \in 0 .. d - 1 :
            complex_approx_equal(UnitaryTotal(matrix, i, j, d),
                                 IF i = j THEN ONE ELSE ZERO,
                                 NORM_TOLERANCE_EXP)

\* matrix_tensor_product(a, b): result[i*p + k][j*q + l] = a[i][j] * b[k][l]
matrix_tensor_product(a, b) ==
    LET m == Cardinality(DOMAIN a)
        n == Cardinality(DOMAIN a[0])
        p == Cardinality(DOMAIN b)
        q == Cardinality(DOMAIN b[0])
    IN  [r \in 0 .. m * p - 1 |->
            [c \in 0 .. n * q - 1 |->
                complex_mul(a[r \div p][c \div q], b[r % p][c % q])]]

\* tensor_product(a, b): result[i * len(b) + j] = a[i] * b[j]
tensor_product(a, b) ==
    LET p == Cardinality(DOMAIN b)
    IN  [k \in 0 .. Cardinality(DOMAIN a) * p - 1 |->
            complex_mul(a[k \div p], b[k % p])]

\* variant: the result is the approximate equality itself, not its negation
is_entangled_not_negated(state) ==
    LET product1 == complex_mul(state[0], state[3])
        product2 == complex_mul(state[1], state[2])
    IN  complex_approx_equal(product1, product2, NORM_TOLERANCE_EXP)

\* is_entangled for a state of 4 amplitudes (it raises for any other length)
is_entangled(state) ==
    LET product1 == complex_mul(state[0], state[3])
        product2 == complex_mul(state[1], state[2])
    IN  ~ complex_approx_equal(product1, product2, NORM_TOLERANCE_EXP)

(***************************************************************************)
(* Memory.  Python lists are mutable objects; heap[ref] is the content of  *)
(* the list object ref.  A function that mutates its argument rewrites     *)
(* heap[ref]; a function that builds a list allocates a new ref.           *)
(***************************************************************************)

Alloc(h, value) == [heap |-> Append(h, value), ref |-> Len(h) + 1]

create_zero_state(h, num_qubits) == Alloc(h, ZeroStateValue(num_qubits))

\* variant: the caller's list itself is stored, no copy is made
clone_state_shared(h, state) == [heap |-> h, ref |-> state]

\* _clone_state: [list(amp) for amp in state], a new list of new lists
clone_state(h, state) == Alloc(h, h[state])

\* variant: the gate is read as gate[c][r], its transpose
apply_single_qubit_gate_transposed(h, state, gate, qubit, num_qubits) ==
    [h EXCEPT ![state] =
        SingleQubitGateValue(h[state],
                             [r \in DOMAIN gate |-> [c \in DOMAIN gate |-> gate[c][r]]],
                             qubit, num_qubits)]

apply_single_qubit_gate(h, state, gate, qubit, num_qubits) ==
    [h EXCEPT ![state] = SingleQubitGateValue(h[state], gate, qubit, num_qubits)]

\* variant: the lower-numbered qubit is taken as the first qubit of the gate
apply_two_qubit_gate_sorted(h, state, gate, qubit0, qubit1, num_qubits) ==
    [h EXCEPT ![state] =
        TwoQubitGateValue(h[state], gate,
                          IF qubit0 < qubit1 THEN qubit0 ELSE qubit1,
                          IF qubit0 < qubit1 THEN qubit1 ELSE qubit0,
                          num_qubits)]

apply_two_qubit_gate(h, state, gate, qubit0, qubit1, num_qubits) ==
    [h EXCEPT ![state] =
        TwoQubitGateValue(h[state], gate, qubit0, qubit1, num_qubits)]

\* variant: no amplitude is negated
apply_grover_oracle_skipped(h, state, targets) == h

\* for t in targets: state[t] = complex_neg(state[t]), in place
apply_grover_oracle(h, state, targets) ==
    [h EXCEPT ![state] = OracleLoop(h[state], targets)]

\* variant: the amplitudes are left as the oracle left them
apply_grover_diffusion_skipped(h, state) == h

\* mean over all amplitudes, then state[k] = 2 * mean - state[k], in place
apply_grover_diffusion(h, state) ==
    [h EXCEPT ![state] = DiffusionValue(h[state])]

\* variant: the result is written into the caller's list and that list is
\* returned
project_and_normalize_in_place(h, state, qubit, outcome, num_qubits) ==
    LET r == ProjectValue(h[state], qubit, outcome, num_qubits)
    IN  IF r.raised
        THEN [raised |-> TRUE, heap |-> h, ref |-> 0]
        ELSE [raised |-> FALSE, heap |-> [h EXCEPT ![state] = r.new_state],
              ref |-> state]

\* [raised |-> TRUE, ...] when the ValueError is raised; otherwise the heap
\* with the new list and its ref
project_and_normalize(h, state, qubit, outcome, num_qubits) ==
    LET r == ProjectValue(h[state], qubit, outcome, num_qubits)
    IN  IF r.raised
        THEN [raised |-> TRUE, heap |-> h, ref |-> 0]
        ELSE [raised |-> FALSE] @@ Alloc(h, r.new_state)

\* state[k] = value
SetItem(h, state, k, value) == [h EXCEPT ![state][k] = value]

(***************************************************************************)
(* The program state                                                       *)
(***************************************************************************)

VARIABLES
    gen,            \* the function that is running
    inputs,         \* its arguments
    pc,             \* the next block of the function; "returned" / "raised"
    heap,           \* the list objects
    state,          \* the local variable state: a ref
    steps,          \* the local list steps
    idx,            \* the local counter idx
    i,              \* the loop index of the current for loop
    classical_bits, \* the local list classical_bits
    err,            \* the exception that left the function, if any
    trace           \* what the last engine call did (engine calls only)

vars == <<gen, inputs, pc, heap, state, steps, idx, i, classical_bits, err, trace>>

NoExtra == [none |-> TRUE]

\* steps.append(Step(index=idx, id=..., state={"stateVector":
\* _clone_state(state), ...}, visual_actions=(... "amplitudes":
\* _clone_state(state) ...), is_terminal=...))
\* bits is the value of the list stored under "classicalBits" (None when the
\* generator has no such key); show tells whether the step has a
\* showStateVector action
AppendStep(h, st, id, is_terminal, bits, extra, show) ==
    LET c1 == clone_state(h, st)
        b == IF bits = None THEN [heap |-> c1.heap, ref |-> 0]
             ELSE Alloc(c1.heap, bits[1])
        c2 == IF show THEN clone_state(b.heap, st)
              ELSE [heap |-> b.heap, ref |-> 0]
    IN  [heap |-> c2.heap,
         steps |-> Append(steps,
            [index |-> idx, id |-> id, stateVector |-> c1.ref,
             probabilities |-> measurement_probabilities(h[st]),
             amplitudes |-> c2.ref, is_terminal |-> is_terminal,
             classicalBits |-> b.ref, extra |-> extra])]

\* the step is appended and control moves on
Recorded(h, st, id, is_terminal, bits, extra, show, bump, next_pc) ==
    LET a == AppendStep(h, st, id, is_terminal, bits, extra, show)
    IN  /\ heap' = a.heap
        /\ steps' = a.steps
        /\ state' = st
        /\ idx' = idx + bump
        /\ pc' = next_pc
        /\ err' = err

\* variant: the exception is swallowed and the steps so far are returned
Raised_swallowed(h, st, e) ==
    /\ heap' = h
    /\ state' = st
    /\ pc' = "returned"
    /\ err' = e
    /\ UNCHANGED <<steps, idx>>

\* an exception leaves generate
Raised(h, st, e) ==
    /\ heap' = h
    /\ state' = st
    /\ pc' = "raised"
    /\ err' = e
    /\ UNCHANGED <<steps, idx>>

\* assert_normalized(state, ...) followed by steps.append(...)
CheckedStep(h, st, id, is_terminal, bits, extra, show, bump, next_pc) ==
    IF assert_normalized(h[st])
    THEN Recorded(h, st, id, is_terminal, bits, extra, show, bump, next_pc)
    ELSE Raised(h, st, "NotNormalized")

(***************************************************************************)
(* quantum_teleportation.generate                                          *)
(***************************************************************************)

\* teleportState angles: theta in [0, pi] in steps of pi/4, phi in [0, 2pi)
\* in steps of pi/8
Thetas == {2 * j : j \in 0 .. PI \div 2}
Phis == 0 .. TWO_PI - 1

TeleportInputs ==
    [theta : Thetas, phi : Phis, qubit0 : {0, 1}, qubit1 : {0, 1}]

IsTp == gen = "quantum_teleportation"

TpInitialize ==
    /\ IsTp /\ pc = "initialize"
    /\ LET orig == bloch_angles_to_state(inputs.theta, inputs.phi)
           z == create_zero_state(heap, 3)
           h1 == SetItem(z.heap, z.ref, 0, orig[1])
           h2 == SetItem(h1, z.ref, 4, orig[2])
           h3 == [h2 EXCEPT ![z.ref] =
                    [k \in DOMAIN @ |-> IF k # 0 /\ k # 4 THEN ZERO ELSE @[k]]]
       IN  CheckedStep(h3, z.ref, <<"initialize">>, FALSE, <<<<>>>>, NoExtra,
                       TRUE, 1, "bell_hadamard")
    /\ UNCHANGED <<gen, inputs, i, classical_bits, trace>>

TpBellHadamard ==
    /\ IsTp /\ pc = "bell_hadamard"
    /\ CheckedStep(apply_single_qubit_gate(heap, state, GATE_H, 1, 3), state,
                   <<"bell_hadamard">>, FALSE, <<<<>>>>, NoExtra, TRUE, 1,
                   "bell_cnot")
    /\ UNCHANGED <<gen, inputs, i, classical_bits, trace>>

TpBellCnot ==
    /\ IsTp /\ pc = "bell_cnot"
    /\ CheckedStep(apply_two_qubit_gate(heap, state, GATE_CNOT, 1, 2, 3), state,
                   <<"bell_cnot">>, FALSE, <<<<>>>>, NoExtra, TRUE, 1,
                   "alice_cnot")
    /\ UNCHANGED <<gen, inputs, i, classical_bits, trace>>

\* variant: Alice's Hadamard is applied where her CNOT belongs
TpAliceCnot_hadamard_first ==
    /\ IsTp /\ pc = "alice_cnot"
    /\ CheckedStep(apply_single_qubit_gate(heap, state, GATE_H, 0, 3), state,
                   <<"alice_cnot">>, FALSE, <<<<>>>>, NoExtra, TRUE, 1,
                   "alice_hadamard")
    /\ UNCHANGED <<gen, inputs, i, classical_bits, trace>>

\* apply_two_qubit_gate(state, GATE_CNOT, 0, 1, ...); assert; steps.append
TpAliceCnot ==
    /\ IsTp /\ pc = "alice_cnot"
    /\ CheckedStep(apply_two_qubit_gate(heap, state, GATE_CNOT, 0, 1, 3), state,
                   <<"alice_cnot">>, FALSE, <<<<>>>>, NoExtra, TRUE, 1,
                   "alice_hadamard")
    /\ UNCHANGED <<gen, inputs, i, classical_bits, trace>>

\* variant: Alice's Hadamard is applied to qubit 1
TpAliceHadamard_on_qubit1 ==
    /\ IsTp /\ pc = "alice_hadamard"
    /\ CheckedStep(apply_single_qubit_gate(heap, state, GATE_H, 1, 3), state,
                   <<"alice_hadamard">>, FALSE, <<<<>>>>, NoExtra, TRUE, 1,
                   "measure_qubit0")
    /\ UNCHANGED <<gen, inputs, i, classical_bits, trace>>

\* circuit step 4: H on qubit 0
TpAliceHadamard ==
    /\ IsTp /\ pc = "alice_hadamard"
    /\ CheckedStep(apply_single_qubit_gate(heap, state, GATE_H, 0, 3), state,
                   <<"alice_hadamard">>, FALSE, <<<<>>>>, NoExtra, TRUE, 1,
                   "measure_qubit0")
    /\ UNCHANGED <<gen, inputs, i, classical_bits, trace>>

\* p0, p1 = qubit_probabilities(...); state = project_and_normalize(...);
\* assert_normalized(state); steps.append(...)
TpMeasure(qubit, m, id, bits, next_pc) ==
    LET p == qubit_probabilities(heap[state], qubit, 3)
        prob_m == IF m = 0 THEN p[1] ELSE p[2]
        r == project_and_normalize(heap, state, qubit, m, 3)
    IN  IF r.raised THEN Raised(heap, state, "ZeroProbabilityOutcome")
        ELSE CheckedStep(r.heap, r.ref, id, FALSE, bits,
                         [probability |-> prob_m], TRUE, 1, next_pc)

TpMeasureQubit0 ==
    /\ IsTp /\ pc = "measure_qubit0"
    /\ TpMeasure(0, inputs.qubit0, <<"measure_qubit0">>, <<<<inputs.qubit0>>>>,
                 "measure_qubit1")
    /\ UNCHANGED <<gen, inputs, i, classical_bits, trace>>

\* variant: the second projection is made on qubit 2
TpMeasureQubit1_on_qubit2 ==
    /\ IsTp /\ pc = "measure_qubit1"
    /\ TpMeasure(2, inputs.qubit1, <<"measure_qubit1">>,
                 <<<<inputs.qubit0, inputs.qubit1>>>>, "bob_correction")
    /\ UNCHANGED <<gen, inputs, i, classical_bits, trace>>

TpMeasureQubit1 ==
    /\ IsTp /\ pc = "measure_qubit1"
    /\ TpMeasure(1, inputs.qubit1, <<"measure_qubit1">>,
                 <<<<inputs.qubit0, inputs.qubit1>>>>, "bob_correction")
    /\ UNCHANGED <<gen, inputs, i, classical_bits, trace>>

\* a correction that takes X from m0 and Z from m1
Correction_swapped(m0, m1) ==
    IF m0 = 0 /\ m1 = 0 THEN <<>>
    ELSE IF m0 = 1 /\ m1 = 0 THEN <<"X">>
    ELSE IF m0 = 0 /\ m1 = 1 THEN <<"Z">>
    ELSE <<"X", "Z">>

\* variant: when both corrections apply, Z is applied first
Correction_z_first(m0, m1) ==
    IF m0 = 0 /\ m1 = 0 THEN <<>>
    ELSE IF m0 = 0 /\ m1 = 1 THEN <<"X">>
    ELSE IF m0 = 1 /\ m1 = 0 THEN <<"Z">>
    ELSE <<"Z", "X">>

\* the gates Bob applies to qubit 2, in order
Correction(m0, m1) ==
    IF m0 = 0 /\ m1 = 0 THEN <<>>
    ELSE IF m0 = 0 /\ m1 = 1 THEN <<"X">>
    ELSE IF m0 = 1 /\ m1 = 0 THEN <<"Z">>
    ELSE <<"X", "Z">>

RECURSIVE ApplyCorrection(_, _, _)
ApplyCorrection(h, st, gates) ==
    IF gates = <<>> THEN h
    ELSE ApplyCorrection(
            apply_single_qubit_gate(h, st,
                IF Head(gates) = "X" THEN GATE_X ELSE GATE_Z, 2, 3),
            st, Tail(gates))

TpBobCorrection ==
    /\ IsTp /\ pc = "bob_correction"
    /\ LET m0 == inputs.qubit0
           m1 == inputs.qubit1
       IN  CheckedStep(ApplyCorrection(heap, state, Correction(m0, m1)), state,
                       <<"bob_correction">>, FALSE, <<<<m0, m1>>>>,
                       [correction |-> Correction(m0, m1)], TRUE, 1,
                       "verification")
    /\ UNCHANGED <<gen, inputs, i, classical_bits, trace>>

TpVerification ==
    /\ IsTp /\ pc = "verification"
    /\ LET m0 == inputs.qubit0
           m1 == inputs.qubit1
           base == 4 * m0 + 2 * m1
           bob_alpha0 == heap[state][base]
           bob_alpha1 == heap[state][base + 1]
           bob == state_to_bloch_angles(bob_alpha0, bob_alpha1)
       IN  Recorded(heap, state, <<"verification">>, TRUE, <<<<m0, m1>>>>,
                    [bobTheta |-> bob[1], bobPhi |-> bob[2]], FALSE, 0,
                    "returned")
    /\ UNCHANGED <<gen, inputs, i, classical_bits, trace>>

TeleportInit ==
    /\ gen = "quantum_teleportation"
    /\ inputs \in TeleportInputs
    /\ pc = "initialize"

TeleportNext ==
    \/ TpInitialize
    \/ TpBellHadamard
    \/ TpBellCnot
    \/ TpAliceCnot
    \/ TpAliceHadamard
    \/ TpMeasureQubit0
    \/ TpMeasureQubit1
    \/ TpBobCorrection
    \/ TpVerification

(***************************************************************************)
(* The gate loop shared by quantum_gates.generate and                      *)
(* superposition_measurement.generate                                      *)
(***************************************************************************)

\* "Apply the gate": the heap after the dispatch on len(qubits), or raised
\* when the name is not known
ApplyGateEntry(h, st, gate_entry, num_qubits) ==
    LET gate_name == gate_entry.gate
        qubits == gate_entry.qubits
        angle == gate_entry.angle
    IN  IF Len(qubits) = 1
        THEN LET gate_matrix == get_standard_gate(gate_name, angle)
             IN  IF gate_matrix = None
                 THEN [raised |-> TRUE, heap |-> h]
                 ELSE [raised |-> FALSE,
                       heap |-> apply_single_qubit_gate(h, st, gate_matrix,
                                                        qubits[1], num_qubits)]
        ELSE IF Len(qubits) = 2
        THEN LET gate_matrix == two_qubit_gates(gate_name)
             IN  IF gate_matrix = None
                 THEN [raised |-> TRUE, heap |-> h]
                 ELSE [raised |-> FALSE,
                       heap |-> apply_two_qubit_gate(h, st, gate_matrix,
                                    qubits[1], qubits[2], num_qubits)]
        ELSE [raised |-> FALSE, heap |-> h]

GateEntry(name, qubits, angle) ==
    [gate |-> name, qubits |-> qubits, angle |-> angle]

\* all sequences over S of length at most n
RECURSIVE SeqsUpTo(_, _)
SeqsUpTo(S, n) ==
    IF n = 0 THEN {<<>>}
    ELSE LET shorter == SeqsUpTo(S, n - 1)
         IN  shorter \cup {Append(q, x) : q \in shorter, x \in S}

(***************************************************************************)
(* quantum_gates.generate                                                  *)
(***************************************************************************)

MaxQubits == 2
MaxGates == 2

\* gate entries offered to quantum_gates: known gates, a parametric gate with
\* and without its angle, an unknown name; two-qubit gates in both orders
QgEntries(n) ==
    {GateEntry(g[1], <<q>>, g[2]) :
        g \in {<<"H", None>>, <<"X", None>>, <<"S", None>>, <<"T", None>>,
               <<"Ry", <<2>> >>, <<"Rz", None>>, <<"Q", None>>},
        q \in 0 .. n - 1}
    \cup
    (IF n < 2 THEN {}
     ELSE {GateEntry("CNOT", <<0, 1>>, None), GateEntry("CNOT", <<1, 0>>, None),
           GateEntry("CZ", <<0, 1>>, None), GateEntry("SWAP", <<n - 1, 0>>, None),
           GateEntry("Q", <<0, 1>>, None)})

\* gate entries on a 3-qubit register with one entry naming three qubits
QgWideEntries ==
    {GateEntry("H", <<0>>, None), GateEntry("Q", <<0, 1, 2>>, None)}

IsQg == gen = "quantum_gates"

QgInit ==
    /\ gen = "quantum_gates"
    /\ \/ \E n \in 1 .. MaxQubits :
             inputs \in [numQubits : {n},
                         gates : SeqsUpTo(QgEntries(n), MaxGates)]
       \/ inputs \in [numQubits : {3}, gates : SeqsUpTo(QgWideEntries, MaxGates)]
    /\ pc = "initialize"

QgInitialize ==
    /\ IsQg /\ pc = "initialize"
    /\ LET z == create_zero_state(heap, inputs.numQubits)
       IN  Recorded(z.heap, z.ref, <<"initialize">>, FALSE, None, NoExtra,
                    TRUE, 1,
                    IF inputs.gates = <<>> THEN "returned" ELSE "gates")
    /\ i' = 0
    /\ UNCHANGED <<gen, inputs, classical_bits, trace>>

\* one iteration of: for i, gate_entry in enumerate(gates)
QgApplyGate ==
    /\ IsQg /\ pc = "gates"
    /\ LET gate_entry == inputs.gates[i + 1]
           a == ApplyGateEntry(heap, state, gate_entry, inputs.numQubits)
       IN  IF a.raised THEN Raised(a.heap, state, "UnknownGate")
           ELSE CheckedStep(a.heap, state, <<"apply_gate", i>>,
                            i = Len(inputs.gates) - 1, None, NoExtra, TRUE, 1,
                            IF i + 1 = Len(inputs.gates) THEN "returned"
                            ELSE "gates")
    /\ i' = i + 1
    /\ UNCHANGED <<gen, inputs, classical_bits, trace>>

QgNext == QgInitialize \/ QgApplyGate

(***************************************************************************)
(* grovers_search.generate                                                 *)
(***************************************************************************)

MaxGroverQubits == 3
MaxTargets == 2

\* bounds of pi^2 in units of 1/PiSqScale
PiSqLo == 98696
PiSqHi == 98697
PiSqScale == 10000

\* variant: the factor pi/4 is left out, r = floor(sqrt(n / m))
OptimalIterations_without_pi(n, m) ==
    CHOOSE r \in 0 .. n : r * r * m <= n /\ n < (r + 1) * (r + 1) * m

\* math.floor((math.pi / 4) * math.sqrt(n / m)): the r with
\* r <= (pi/4) sqrt(n/m) < r + 1, that is 16 r^2 m <= pi^2 n < 16 (r+1)^2 m
OptimalIterations(n, m) ==
    CHOOSE r \in 0 .. n :
        /\ 16 * r * r * m * PiSqScale <= PiSqLo * n
        /\ PiSqHi * n < 16 * (r + 1) * (r + 1) * m * PiSqScale

\* strictly increasing target lists of length 1 .. MaxTargets
GroverTargets(n) ==
    {t \in SeqsUpTo(0 .. Pow2(n) - 1, MaxTargets) :
        /\ Len(t) >= 1
        /\ \A j \in 1 .. Len(t) - 1 : t[j] < t[j + 1]}

IsGr == gen = "grovers_search"

GrInit ==
    /\ gen = "grovers_search"
    /\ \E n \in 1 .. MaxGroverQubits :
          inputs \in [numQubits : {n}, targets : GroverTargets(n)]
    /\ pc = "initialize"

\* r of generate
GrR == OptimalIterations(Pow2(inputs.numQubits), Len(inputs.targets))

RECURSIVE SumOver(_, _)
\* sum(complex_abs_sq(state[t]) for t in targets)
SumOver(v, targets) ==
    IF targets = <<>> THEN RZero
    ELSE RAdd(SumOver(v, SubSeq(targets, 1, Len(targets) - 1)),
              complex_abs_sq(v[targets[Len(targets)]]))

GrExtra(h, st, iteration, phase) ==
    [iteration |-> iteration, totalIterations |-> GrR, phase |-> phase,
     successProbability |-> SumOver(h[st], inputs.targets)]

GrInitialize ==
    /\ IsGr /\ pc = "initialize"
    /\ LET z == create_zero_state(heap, inputs.numQubits)
       IN  Recorded(z.heap, z.ref, <<"initialize">>, FALSE, None,
                    GrExtra(z.heap, z.ref, 0, "initialize"), TRUE, 1,
                    "hadamard_all")
    /\ UNCHANGED <<gen, inputs, i, classical_bits, trace>>

RECURSIVE HadamardAll(_, _, _, _)
\* for q in range(q, num_qubits): apply_single_qubit_gate(state, GATE_H, q, ...)
HadamardAll(h, st, q, num_qubits) ==
    IF q >= num_qubits THEN h
    ELSE HadamardAll(apply_single_qubit_gate(h, st, GATE_H, q, num_qubits),
                     st, q + 1, num_qubits)

GrHadamardAll ==
    /\ IsGr /\ pc = "hadamard_all"
    /\ LET h1 == HadamardAll(heap, state, 0, inputs.numQubits)
       IN  CheckedStep(h1, state, <<"hadamard_all">>, FALSE, None,
                       GrExtra(h1, state, 0, "hadamard"), TRUE, 1,
                       IF GrR >= 1 THEN "oracle" ELSE "measure")
    /\ i' = 1
    /\ UNCHANGED <<gen, inputs, classical_bits, trace>>

\* first half of one iteration of: for iteration in range(1, r + 1)
GrOracle ==
    /\ IsGr /\ pc = "oracle"
    /\ LET h1 == apply_grover_oracle(heap, state, inputs.targets)
       IN  CheckedStep(h1, state, <<"oracle", i>>, FALSE, None,
                       GrExtra(h1, state, i, "oracle"), TRUE, 1, "diffusion")
    /\ UNCHANGED <<gen, inputs, i, classical_bits, trace>>

\* second half of the iteration
GrDiffusion ==
    /\ IsGr /\ pc = "diffusion"
    /\ LET h1 == apply_grover_diffusion(heap, state)
       IN  CheckedStep(h1, state, <<"diffusion", i>>, FALSE, None,
                       GrExtra(h1, state, i, "diffusion"), TRUE, 1,
                       IF i = GrR THEN "measure" ELSE "oracle")
    /\ i' = i + 1
    /\ UNCHANGED <<gen, inputs, classical_bits, trace>>

GrMeasure ==
    /\ IsGr /\ pc = "measure"
    /\ Recorded(heap, state, <<"measure">>, TRUE, None,
                GrExtra(heap, state, GrR, "measure"), FALSE, 0, "returned")
    /\ UNCHANGED <<gen, inputs, i, classical_bits, trace>>

GrNext == GrInitialize \/ GrHadamardAll \/ GrOracle \/ GrDiffusion \/ GrMeasure

(***************************************************************************)
(* superposition_measurement.generate                                      *)
(***************************************************************************)

MaxPrep == 2
MaxMeas == 2

SmEntries(n) ==
    {GateEntry(g[1], <<q>>, g[2]) :
        g \in {<<"H", None>>, <<"Ry", <<2>> >>}, q \in 0 .. n - 1}
    \cup {GateEntry("Q", <<0>>, None)}
    \cup (IF n < 2 THEN {}
          ELSE {GateEntry("CNOT", <<0, 1>>, None),
                GateEntry("Q", <<0, 1>>, None)})

SmMeasurements(n) == [qubit : 0 .. n - 1, outcome : {0, 1}]

IsSm == gen = "superposition_measurement"

SmInit ==
    /\ gen = "superposition_measurement"
    /\ \E n \in 1 .. MaxQubits :
          inputs \in [numQubits : {n},
                      preparationGates : SeqsUpTo(SmEntries(n), MaxPrep),
                      measurements : SeqsUpTo(SmMeasurements(n), MaxMeas)]
    /\ pc = "initialize"

\* where control goes after the preparation loop
SmAfterPrep ==
    IF inputs.measurements = <<>> THEN "returned" ELSE "measurements"

SmInitialize ==
    /\ IsSm /\ pc = "initialize"
    /\ LET z == create_zero_state(heap, inputs.numQubits)
           cb == Alloc(z.heap, <<>>)
       IN  /\ Recorded(cb.heap, z.ref, <<"initialize">>, FALSE, <<<<>>>>,
                       [entangled |-> FALSE], TRUE, 1,
                       IF inputs.preparationGates = <<>> THEN SmAfterPrep
                       ELSE "preparation")
           /\ classical_bits' = cb.ref
    /\ i' = 0
    /\ UNCHANGED <<gen, inputs, trace>>

\* one iteration of: for i, gate_entry in enumerate(preparation_gates)
SmPrepareGate ==
    /\ IsSm /\ pc = "preparation"
    /\ LET gate_entry == inputs.preparationGates[i + 1]
           a == ApplyGateEntry(heap, state, gate_entry, inputs.numQubits)
           entangled == /\ inputs.numQubits = 2
                        /\ Dim(a.heap[state]) = 4
                        /\ is_entangled(a.heap[state])
           last == i + 1 = Len(inputs.preparationGates)
       IN  IF a.raised THEN Raised(a.heap, state, "UnknownGate")
           ELSE CheckedStep(a.heap, state, <<"prepare_gate", i>>, FALSE,
                            <<heap[classical_bits]>>,
                            [entangled |-> entangled], TRUE, 1,
                            IF last THEN SmAfterPrep ELSE "preparation")
    /\ i' = IF i + 1 = Len(inputs.preparationGates) THEN 0 ELSE i + 1
    /\ UNCHANGED <<gen, inputs, classical_bits, trace>>

\* the square root and the reciprocal needed to renormalize are in the
\* number field of the model
Nameable(prob) ==
    \E r \in RootCands :
        /\ RSign(r) >= 0
        /\ RMul(r, r) = prob
        /\ \E q \in RootCands : RMul(q, r) = ROne

\* variant: the outcome is inserted at the front of the list
classical_bits_append_front(h, ref, outcome) ==
    [h EXCEPT ![ref] = <<outcome>> \o @]

\* classical_bits.append(outcome)
classical_bits_append(h, ref, outcome) ==
    [h EXCEPT ![ref] = Append(@, outcome)]

\* one iteration of: for m, meas in enumerate(measurements)
SmMeasure ==
    /\ IsSm /\ pc = "measurements"
    /\ LET meas == inputs.measurements[i + 1]
           p == qubit_probabilities(heap[state], meas.qubit, inputs.numQubits)
           outcome_prob == IF meas.outcome = 0 THEN p[1] ELSE p[2]
           is_last == i = Len(inputs.measurements) - 1
       IN  /\ CmpTenPow(outcome_prob, EPSILON_EXP) < 0 \/ Nameable(outcome_prob)
           /\ LET r == project_and_normalize(heap, state, meas.qubit,
                                             meas.outcome, inputs.numQubits)
              IN  IF r.raised
                  THEN Raised(heap, state, "ZeroProbabilityOutcome")
                  ELSE IF ~ assert_normalized(r.heap[r.ref])
                  THEN Raised(r.heap, r.ref, "NotNormalized")
                  ELSE LET h1 == classical_bits_append(r.heap, classical_bits,
                                                       meas.outcome)
                       IN  Recorded(h1, r.ref, <<"measure_qubit", meas.qubit>>,
                                    is_last, <<h1[classical_bits]>>,
                                    [outcomeProb |-> outcome_prob,
                                     measuredOutcome |-> meas.outcome],
                                    TRUE, 1,
                                    IF is_last THEN "returned"
                                    ELSE "measurements")
    /\ i' = i + 1
    /\ UNCHANGED <<gen, inputs, classical_bits, trace>>

SmNext == SmInitialize \/ SmPrepareGate \/ SmMeasure

(***************************************************************************)
(* Direct calls of the engine functions on sample vectors                  *)
(***************************************************************************)

MaxEngineQubits == 3

Indices(n) == 0 .. Pow2(n) - 1

\* |k>
Basis(n, k) == [j \in Indices(n) |-> IF j = k THEN ONE ELSE ZERO]

\* every amplitude 1/sqrt(2^n), as n Hadamards leave it
Uniform(n) == [j \in Indices(n) |-> <<RSqrtHalfPow(n), RZero>>]

\* not normalized, all amplitudes different: shows where each one goes
Ramp(n) == [j \in Indices(n) |-> <<RInt(j + 1), RInt(Pow2(n) - j)>>]

\* not normalized, all amplitudes 1
Ones(n) == [j \in Indices(n) |-> ONE]

\* one-qubit vectors with a very small amplitude: 2^-20 (probability below
\* 1e-10) and 2^-16 (probability above 1e-10), and a tilted state
SmallAmp(e) == (0 :> ONE) @@ (1 :> <<RShift(ROne, e), RZero>>)
Tilted == (0 :> <<Cos(1), RZero>>) @@ (1 :> complex_scale(Sin(1), complex_exp(3)))

\* (|00> + |11>)/sqrt2
Bell == [j \in Indices(2) |-> IF j \in {0, 3} THEN <<SQRT1_2, RZero>> ELSE ZERO]

Samples(n) ==
    {Basis(n, k) : k \in Indices(n)}
    \cup {Uniform(n), Ramp(n), Ones(n)}
    \cup (IF n = 1 THEN {SmallAmp(20), SmallAmp(16), Tilted} ELSE {})
    \cup (IF n = 2 THEN {Bell} ELSE {})

SingleCalls ==
    UNION {[op : {"apply_single_qubit_gate"}, num_qubits : {n},
            qubit : 0 .. n - 1,
            gate : {GATE_X, GATE_Y, GATE_H, GATE_T, gate_ry(2)},
            state : Samples(n)] : n \in 1 .. MaxEngineQubits}

TwoCalls ==
    UNION {{c \in [op : {"apply_two_qubit_gate"}, num_qubits : {n},
                   qubit0 : 0 .. n - 1, qubit1 : 0 .. n - 1,
                   gate : {GATE_CNOT, GATE_CZ, GATE_SWAP},
                   state : Samples(n)] : c.qubit0 # c.qubit1}
           : n \in 2 .. MaxEngineQubits}
    \cup {[op |-> "apply_two_qubit_gate", num_qubits |-> 2,
           qubit0 |-> 0, qubit1 |-> 1, gate |-> GATE_CNOT,
           state |-> SingleQubitGateValue(ZeroStateValue(2), GATE_H, 0, 2)]}

\* the calls of project_and_normalize whose result is in the number field
ProjectCalls ==
    UNION {{c \in [op : {"project_and_normalize"}, num_qubits : {n},
                   qubit : 0 .. n - 1, outcome : {0, 1},
                   state : Samples(n)] :
               LET prob == BitMass(c.state, n - 1 - c.qubit, c.outcome)
               IN  ProjectFails(prob) \/ Nameable(prob)}
           : n \in 1 .. MaxEngineQubits}

OracleCalls ==
    UNION {[op : {"apply_grover_oracle"}, num_qubits : {n},
            targets : SeqsUpTo(Indices(n), 2),
            state : Samples(n)] : n \in 1 .. 2}

DiffusionCalls ==
    UNION {[op : {"apply_grover_diffusion"}, num_qubits : {n},
            state : Samples(n)] : n \in 1 .. MaxEngineQubits}

QubitProbCalls ==
    UNION {[op : {"qubit_probabilities"}, num_qubits : {n},
            qubit : 0 .. n - 1,
            state : Samples(n)] : n \in 1 .. MaxEngineQubits}

\* apply_single_qubit_gate(state, GATE_H, q, n) called twice in a row
HadamardTwiceCalls ==
    UNION {[op : {"h_squared"}, num_qubits : {n},
            qubit : 0 .. n - 1,
            state : Samples(n)] : n \in 1 .. MaxEngineQubits}

\* the angles of the rotation gates: the multiples of pi/4 in [-2 pi, 4 pi]
GateAngles == {2 * j : j \in -PI .. 2 * PI}

\* the gate library: the constants and the rotations
GateLibrary ==
    {<<"GATE_I", GATE_I>>, <<"GATE_X", GATE_X>>, <<"GATE_Y", GATE_Y>>,
     <<"GATE_Z", GATE_Z>>, <<"GATE_H", GATE_H>>, <<"GATE_S", GATE_S>>,
     <<"GATE_T", GATE_T>>, <<"GATE_CNOT", GATE_CNOT>>, <<"GATE_CZ", GATE_CZ>>,
     <<"GATE_SWAP", GATE_SWAP>>, <<"GATE_TOFFOLI", GATE_TOFFOLI>>}
    \cup {<<"gate_rx", gate_rx(a)>> : a \in GateAngles}
    \cup {<<"gate_ry", gate_ry(a)>> : a \in GateAngles}
    \cup {<<"gate_rz", gate_rz(a)>> : a \in GateAngles}

UnitaryCalls ==
    {[op |-> "is_unitary", name |-> g[1], matrix |-> g[2]] : g \in GateLibrary}

\* (|01> + |10>)/sqrt2
BellPsiPlus ==
    [j \in Indices(2) |-> IF j \in {1, 2} THEN <<SQRT1_2, RZero>> ELSE ZERO]

\* single-qubit states: points of the Bloch sphere, a tilted state and a
\* state that is not normalized
OneQubitStates ==
    {[k \in 0 .. 1 |-> bloch_angles_to_state(t, p)[k + 1]] :
        t \in Thetas, p \in {0, 3, PI}}
    \cup {Tilted, SmallAmp(16)}

ProductStates == {tensor_product(a, b) : a \in OneQubitStates, b \in OneQubitStates}

EntangledCalls ==
    [op : {"is_entangled"},
     state : UNION {Samples(n) : n \in 1 .. MaxEngineQubits}
             \cup {BellPsiPlus} \cup ProductStates]

\* theta = 2^-SmallAngleExp radians is an angle just above the north pole
SmallAngleExp == 33

\* the angles theta of (0, pi): units * pi/8, or 2^-small when small > 0
OpenThetas ==
    {[units |-> t, small |-> 0] : t \in Thetas \ {0, PI}}
    \cup {[units |-> 0, small |-> SmallAngleExp]}

BlochCalls == [op : {"bloch_round_trip"}, theta : OpenThetas, phi : Phis]

\* apply_grover_diffusion(state) called twice in a row; the vectors whose
\* norm^2 the model can add up
DiffusionTwiceCalls ==
    UNION {[op : {"diffusion_twice"}, num_qubits : {n},
            state : Samples(n) \ {SmallAmp(20), SmallAmp(16)}]
           : n \in 1 .. MaxEngineQubits}

IsEngine == gen = "engine"

EngineInit ==
    /\ gen = "engine"
    /\ inputs \in SingleCalls \cup TwoCalls \cup ProjectCalls \cup OracleCalls
                 \cup DiffusionCalls \cup QubitProbCalls \cup HadamardTwiceCalls
                 \cup UnitaryCalls \cup EntangledCalls \cup BlochCalls
                 \cup DiffusionTwiceCalls
    /\ pc = "call"
    /\ heap = IF "state" \in DOMAIN inputs THEN <<inputs.state>> ELSE <<>>
    /\ state = 1
    /\ steps = <<>>
    /\ idx = 0
    /\ i = 0
    /\ classical_bits = 0
    /\ err = "none"
    /\ trace = None

Calling(op) == IsEngine /\ pc = "call" /\ inputs.op = op

CallSingleQubitGate ==
    /\ Calling("apply_single_qubit_gate")
    /\ heap' = apply_single_qubit_gate(heap, state, inputs.gate, inputs.qubit,
                                       inputs.num_qubits)
    /\ trace' = RunSingleQubitGate(heap[state], inputs.gate, inputs.qubit,
                                   inputs.num_qubits)
    /\ pc' = "returned"
    /\ UNCHANGED <<gen, inputs, state, steps, idx, i, classical_bits, err>>

CallTwoQubitGate ==
    /\ Calling("apply_two_qubit_gate")
    /\ heap' = apply_two_qubit_gate(heap, state, inputs.gate, inputs.qubit0,
                                    inputs.qubit1, inputs.num_qubits)
    /\ trace' = RunTwoQubitGate(heap[state], inputs.gate, inputs.qubit0,
                                inputs.qubit1, inputs.num_qubits)
    /\ pc' = "returned"
    /\ UNCHANGED <<gen, inputs, state, steps, idx, i, classical_bits, err>>

CallProjectAndNormalize ==
    /\ Calling("project_and_normalize")
    /\ LET r == project_and_normalize(heap, state, inputs.qubit, inputs.outcome,
                                      inputs.num_qubits)
       IN  /\ heap' = r.heap
           /\ trace' = [ref |-> r.ref]
           /\ pc' = IF r.raised THEN "raised" ELSE "returned"
           /\ err' = IF r.raised THEN "ZeroProbabilityOutcome" ELSE err
    /\ UNCHANGED <<gen, inputs, state, steps, idx, i, classical_bits>>

CallGroverOracle ==
    /\ Calling("apply_grover_oracle")
    /\ heap' = apply_grover_oracle(heap, state, inputs.targets)
    /\ pc' = "returned"
    /\ UNCHANGED <<gen, inputs, state, steps, idx, i, classical_bits, err, trace>>

CallGroverDiffusion ==
    /\ Calling("apply_grover_diffusion")
    /\ heap' = apply_grover_diffusion(heap, state)
    /\ pc' = "returned"
    /\ UNCHANGED <<gen, inputs, state, steps, idx, i, classical_bits, err, trace>>

\* (p0, p1) = qubit_probabilities(state, qubit, num_qubits)
CallQubitProbabilities ==
    /\ Calling("qubit_probabilities")
    /\ trace' = [p |-> qubit_probabilities(heap[state], inputs.qubit,
                                           inputs.num_qubits)]
    /\ pc' = "returned"
    /\ UNCHANGED <<gen, inputs, heap, state, steps, idx, i, classical_bits, err>>

\* the first apply_single_qubit_gate(state, GATE_H, qubit, num_qubits)
CallHadamardFirst ==
    /\ Calling("h_squared")
    /\ heap' = apply_single_qubit_gate(heap, state, GATE_H, inputs.qubit,
                                       inputs.num_qubits)
    /\ trace' = [once |-> heap'[state]]
    /\ pc' = "once"
    /\ UNCHANGED <<gen, inputs, state, steps, idx, i, classical_bits, err>>

\* the second apply_single_qubit_gate(state, GATE_H, qubit, num_qubits)
CallHadamardSecond ==
    /\ IsEngine /\ pc = "once" /\ inputs.op = "h_squared"
    /\ heap' = apply_single_qubit_gate(heap, state, GATE_H, inputs.qubit,
                                       inputs.num_qubits)
    /\ pc' = "returned"
    /\ UNCHANGED <<gen, inputs, state, steps, idx, i, classical_bits, err, trace>>

\* result = is_unitary(matrix)
CallIsUnitary ==
    /\ Calling("is_unitary")
    /\ trace' = [result |-> is_unitary(inputs.matrix)]
    /\ pc' = "returned"
    /\ UNCHANGED <<gen, inputs, heap, state, steps, idx, i, classical_bits, err>>

\* result = is_entangled(state), or the ValueError for a wrong length
CallIsEntangled ==
    /\ Calling("is_entangled")
    /\ IF Dim(heap[state]) # 4
       THEN /\ pc' = "raised"
            /\ err' = "WrongDimension"
            /\ UNCHANGED trace
       ELSE /\ pc' = "returned"
            /\ trace' = [result |-> is_entangled(heap[state])]
            /\ UNCHANGED err
    /\ UNCHANGED <<gen, inputs, heap, state, steps, idx, i, classical_bits>>

\* state_to_bloch_angles(bloch_angles_to_state(theta, phi))
CallBlochRoundTrip ==
    /\ Calling("bloch_round_trip")
    /\ LET st == IF inputs.theta.small = 0
                 THEN bloch_angles_to_state(inputs.theta.units, inputs.phi)
                 ELSE bloch_angles_to_state_small(inputs.theta.small, inputs.phi)
       IN  trace' = [state |-> st,
                     result |-> state_to_bloch_angles(st[1], st[2])]
    /\ pc' = "returned"
    /\ UNCHANGED <<gen, inputs, heap, state, steps, idx, i, classical_bits, err>>

\* the first apply_grover_diffusion(state)
CallDiffusionFirst ==
    /\ Calling("diffusion_twice")
    /\ heap' = apply_grover_diffusion(heap, state)
    /\ trace' = [once |-> heap'[state]]
    /\ pc' = "once"
    /\ UNCHANGED <<gen, inputs, state, steps, idx, i, classical_bits, err>>

\* the second apply_grover_diffusion(state)
CallDiffusionSecond ==
    /\ IsEngine /\ pc = "once" /\ inputs.op = "diffusion_twice"
    /\ heap' = apply_grover_diffusion(heap, state)
    /\ pc' = "returned"
    /\ UNCHANGED <<gen, inputs, state, steps, idx, i, classical_bits, err, trace>>

EngineNext ==
    \/ CallSingleQubitGate
    \/ CallTwoQubitGate
    \/ CallProjectAndNormalize
    \/ CallGroverOracle
    \/ CallGroverDiffusion
    \/ CallQubitProbabilities
    \/ CallHadamardFirst
    \/ CallHadamardSecond
    \/ CallIsUnitary
    \/ CallIsEntangled
    \/ CallBlochRoundTrip
    \/ CallDiffusionFirst
    \/ CallDiffusionSecond

(***************************************************************************)
(* Specifications                                                          *)
(***************************************************************************)

\* the state of a call before its first statement
(***************************************************************************)
(* The module-level gate constants as list objects.  A GateMatrix is a     *)
(* list of row lists: heap[ref] is the list of the refs of its rows and    *)
(* heap[row ref] is the list of the entries of the row.  A session calls   *)
(* get_standard_gate, the two gate applications and the recording of a     *)
(* showGateMatrix action in any order on one register.                     *)
(***************************************************************************)

\* the rows of matrix value M as lists
MatRows(M) ==
    LET d == Cardinality(DOMAIN M)
    IN  [r \in 1 .. d |-> [c \in 1 .. Cardinality(DOMAIN M[r - 1]) |-> M[r - 1][c - 1]]]

RECURSIVE AllocRows(_, _, _, _)
\* the row lists of a matrix literal, allocated in order
AllocRows(h, rows, r, refs) ==
    IF r > Len(rows) THEN [heap |-> h, refs |-> refs]
    ELSE LET a == Alloc(h, rows[r])
         IN  AllocRows(a.heap, rows, r + 1, Append(refs, a.ref))

\* a new matrix object with new rows holding the entries of M
AllocMatrix(h, M) ==
    LET a == AllocRows(h, MatRows(M), 1, <<>>)
    IN  Alloc(a.heap, a.refs)

\* the entries of the matrix object ref, read through its rows
MatrixValue(h, ref) ==
    [r \in 0 .. Len(h[ref]) - 1 |->
        [c \in 0 .. Len(h[h[ref][r + 1]]) - 1 |-> h[h[ref][r + 1]][c + 1]]]

\* the list objects of a matrix literal evaluated when base objects exist:
\* its rows, then the list of its rows
MatrixLiteral(M, base) ==
    LET rows == MatRows(M)
        d == Cardinality(DOMAIN M)
    IN  [r \in 1 .. d |-> rows[r]] \o << [q \in 1 .. d |-> base + q] >>

\* the heap once the module is imported: GATE_I ... GATE_TOFFOLI in the
\* order of their definition
GlobalHeap ==
    MatrixLiteral(GATE_I, 0) \o MatrixLiteral(GATE_X, 3)
    \o MatrixLiteral(GATE_Y, 6) \o MatrixLiteral(GATE_Z, 9)
    \o MatrixLiteral(GATE_H, 12) \o MatrixLiteral(GATE_S, 15)
    \o MatrixLiteral(GATE_T, 18) \o MatrixLiteral(GATE_CNOT, 21)
    \o MatrixLiteral(GATE_CZ, 26) \o MatrixLiteral(GATE_SWAP, 31)
    \o MatrixLiteral(GATE_TOFFOLI, 36)

\* the object each module-level name is bound to
GateRefs ==
    [I |-> 3, X |-> 6, Y |-> 9, Z |-> 12, H |-> 15, S |-> 18, T |-> 21,
     CNOT |-> 26, CZ |-> 31, SWAP |-> 36, TOFFOLI |-> 45]

\* get_standard_gate(name, angle): the constant itself for a fixed gate, a
\* new matrix for a rotation, None otherwise
get_standard_gate_object(h, name, angle) ==
    IF name \in {"I", "X", "Y", "Z", "H", "S", "T"}
    THEN [heap |-> h, result |-> <<GateRefs[name]>>]
    ELSE IF name \in {"Rx", "Ry", "Rz"} /\ angle # None
    THEN LET a == AllocMatrix(h, get_standard_gate(name, angle))
         IN  [heap |-> a.heap, result |-> <<a.ref>>]
    ELSE [heap |-> h, result |-> None]

\* variant: list(gate_matrix), a new outer list over the same rows
matrix_copy_shallow(h, ref) == Alloc(h, h[ref])

\* [[list(c) for c in row] for row in gate_matrix]
matrix_copy(h, ref) == AllocMatrix(h, MatrixValue(h, ref))

\* the number of calls of a session
MaxSessionCalls == 3

SessionNames == {"I", "X", "Y", "Z", "H", "S", "T", "Rx", "Rz", "FOO"}

IsSession == gen = "gate_session"

SessionInit ==
    /\ gen = "gate_session"
    /\ inputs \in [numQubits : 1 .. MaxQubits]
    /\ pc = "session"
    /\ LET z == create_zero_state(GlobalHeap, inputs.numQubits)
       IN  heap = z.heap /\ state = z.ref
    /\ steps = <<>>
    /\ idx = 0
    /\ i = 0
    /\ classical_bits = 0
    /\ err = "none"
    /\ trace = None

InSession == IsSession /\ pc = "session" /\ i < MaxSessionCalls

\* gate_matrix = get_standard_gate(gate_name, angle)
SsGetStandardGate ==
    /\ InSession
    /\ \E name \in SessionNames : \E angle \in {None, <<2>>} :
          LET g == get_standard_gate_object(heap, name, angle)
          IN  heap' = g.heap /\ trace' = g.result
    /\ i' = i + 1
    /\ UNCHANGED <<gen, inputs, pc, state, steps, idx, classical_bits, err>>

\* apply_single_qubit_gate(state, gate_matrix, qubits[0], num_qubits)
SsApplySingleQubitGate ==
    /\ InSession /\ trace # None
    /\ \E qubit \in 0 .. inputs.numQubits - 1 :
          heap' = apply_single_qubit_gate(heap, state, MatrixValue(heap, trace[1]),
                                          qubit, inputs.numQubits)
    /\ i' = i + 1
    /\ UNCHANGED <<gen, inputs, pc, state, steps, idx, classical_bits, err, trace>>

\* gate_matrix = two_qubit_gates.get(gate_name);
\* apply_two_qubit_gate(state, gate_matrix, qubits[0], qubits[1], num_qubits)
SsApplyTwoQubitGate ==
    /\ InSession /\ inputs.numQubits >= 2
    /\ \E name \in {"CNOT", "CZ", "SWAP"} :
       \E qubit0 \in 0 .. inputs.numQubits - 1 :
       \E qubit1 \in (0 .. inputs.numQubits - 1) \ {qubit0} :
          heap' = apply_two_qubit_gate(heap, state,
                                       MatrixValue(heap, GateRefs[name]),
                                       qubit0, qubit1, inputs.numQubits)
    /\ i' = i + 1
    /\ UNCHANGED <<gen, inputs, pc, state, steps, idx, classical_bits, err, trace>>

\* VisualAction(type="showGateMatrix", params={..., "matrix": copy})
SsShowGateMatrix ==
    /\ InSession /\ trace # None
    /\ LET c == matrix_copy(heap, trace[1])
       IN  heap' = c.heap /\ steps' = Append(steps, c.ref)
    /\ i' = i + 1
    /\ UNCHANGED <<gen, inputs, pc, state, idx, classical_bits, err, trace>>

SessionNext ==
    \/ SsGetStandardGate
    \/ SsApplySingleQubitGate
    \/ SsApplyTwoQubitGate
    \/ SsShowGateMatrix

Fresh ==
    /\ heap = <<>>
    /\ state = 0
    /\ steps = <<>>
    /\ idx = 0
    /\ i = 0
    /\ classical_bits = 0
    /\ err = "none"
    /\ trace = None

Init == Fresh /\ (TeleportInit \/ QgInit \/ GrInit \/ SmInit)

Next == TeleportNext \/ QgNext \/ GrNext \/ SmNext

Spec == Init /\ [][Next]_vars

EngineSpec == EngineInit /\ [][EngineNext]_vars

GateSpec == SessionInit /\ [][SessionNext]_vars

(***************************************************************************)
(* Properties                                                              *)
(***************************************************************************)

Last(seq) == seq[Len(seq)]

TpReturned == IsTp /\ pc = "returned"

\* Alice's original amplitudes <<alpha0, alpha1>>
TpOrig == bloch_angles_to_state(inputs.theta, inputs.phi)

\* base = m0 << 2 | m1 << 1
TpBase == 4 * inputs.qubit0 + 2 * inputs.qubit1

\* the amplitudes of qubit 2 in the final state
TpBob == <<heap[state][TpBase], heap[state][TpBase + 1]>>

StepRefs(s) ==
    {s.stateVector} \cup (IF s.amplitudes = 0 THEN {} ELSE {s.amplitudes})

\* no list object is held twice: not by two steps, not twice by one step,
\* and none is the list the generator goes on working with
NoSharedBuffer ==
    /\ \A k \in DOMAIN steps :
          /\ state \notin StepRefs(steps[k])
          /\ steps[k].amplitudes # steps[k].stateVector
    /\ \A j, k \in DOMAIN steps :
          j # k => StepRefs(steps[j]) \cap StepRefs(steps[k]) = {}

\* a step just appended shows the state vector as it is at that moment
SnapshotTaken ==
    Len(steps') = Len(steps) + 1 =>
        \A r \in StepRefs(Last(steps')) : heap'[r] = heap'[state']

\* what has been recorded stays as it was recorded
RecordedKept ==
    \A k \in DOMAIN steps :
        /\ k \in DOMAIN steps'
        /\ steps'[k] = steps[k]
        /\ \A r \in StepRefs(steps[k]) : heap'[r] = heap[r]

\* C2: in the four quantum generators the state vector recorded in a step
\* (stateVector, and amplitudes where present) is a copy taken when the step
\* is appended; no later operation changes it, and no two steps, nor a step
\* and the working state, hold the same list.
C2_SnapshotsKept ==
    /\ [](NoSharedBuffer)
    /\ [][SnapshotTaken /\ RecordedKept]_vars

\* a run whose working state has moved on from what the first step recorded
C2_Witness ==
    /\ IsTp /\ pc = "returned"
    /\ Len(steps) = 9
    /\ heap[steps[1].stateVector] # heap[state]
    /\ heap[steps[1].stateVector] # heap[steps[2].stateVector]

\* | ||v||^2 - 1 | <= 1e-9
Normalized(v) ==
    CmpTenPow(RAbs(RSub(SumFrom([k \in DOMAIN v |-> complex_abs_sq(v[k])],
                                0, Dim(v)), ROne)),
              NORM_TOLERANCE_EXP) <= 0

\* C3: no step is ever recorded with a state vector that is not normalized
\* (within 1e-9); a failed normalization check ends generate with the
\* NotNormalized error and nothing is recorded for it.
C3_RecordedNormalized ==
    /\ \A k \in DOMAIN steps : Normalized(heap[steps[k].stateVector])
    /\ err = "NotNormalized" => pc = "raised"

\* a measurement run: gates and projections acted, every step was recorded
C3_Witness ==
    /\ IsSm /\ pc = "returned"
    /\ Len(steps) >= 4
    /\ Len(inputs.measurements) >= 1
    /\ heap[Last(steps).stateVector] # heap[steps[1].stateVector]

(***************************************************************************)
(* Properties of the engine functions                                      *)
(***************************************************************************)

Called(op) == IsEngine /\ inputs.op = op /\ pc # "call"

Returned(op) == IsEngine /\ inputs.op = op /\ pc = "returned"

\* the positions of the trace at which index k is read / written
Reads(log, k) == {p \in DOMAIN log : log[p] = <<"r", k>>}
Writes(log, k) == {p \in DOMAIN log : log[p] = <<"w", k>>}

\* every read of an index of K comes before every write of an index of K
ReadBeforeWritten(log, K) ==
    \A j, k \in K : \A p \in Reads(log, j), q \in Writes(log, k) : p < q

\* C4: for every n >= 1 and every qubit of an n-qubit vector,
\* apply_single_qubit_gate does exactly 2^(n-1) pair operations; the pairs
\* (i, i + 2^(n-1-qubit)), over the i whose bit n-1-qubit is 0, partition
\* the 2^n indices; every amplitude is written exactly once, and both
\* amplitudes of a pair are read before either is written, so each pair
\* gets the 2x2 transform of its values from before the call.
C4_PairsOnce ==
    Returned("apply_single_qubit_gate") =>
        LET n == inputs.num_qubits
            bit == n - 1 - inputs.qubit
            g == inputs.gate
            before == inputs.state
            after == heap[state]
            ops == trace.ops
        IN  /\ Len(ops) = Pow2(n - 1)
            /\ \A j \in DOMAIN ops :
                  /\ BitAt(ops[j][1], bit) = 0
                  /\ ops[j][2] = ops[j][1] + Pow2(bit)
                  /\ ReadBeforeWritten(trace.log, {ops[j][1], ops[j][2]})
                  /\ after[ops[j][1]] =
                        complex_add(complex_mul(g[0][0], before[ops[j][1]]),
                                    complex_mul(g[0][1], before[ops[j][2]]))
                  /\ after[ops[j][2]] =
                        complex_add(complex_mul(g[1][0], before[ops[j][1]]),
                                    complex_mul(g[1][1], before[ops[j][2]]))
            /\ \A k \in Indices(n) :
                  /\ Cardinality({j \in DOMAIN ops :
                                    k = ops[j][1] \/ k = ops[j][2]}) = 1
                  /\ Cardinality(Writes(trace.log, k)) = 1
                  /\ Cardinality(Reads(trace.log, k)) = 1

\* a gate on the middle qubit of three: the partner is two indices away
C4_Witness ==
    /\ Returned("apply_single_qubit_gate")
    /\ inputs.num_qubits = 3 /\ inputs.qubit = 1
    /\ inputs.gate = GATE_H /\ inputs.state = Ramp(3)
    /\ trace.ops = << <<0, 2>>, <<1, 3>>, <<4, 6>>, <<5, 7>> >>

\* the four indices of the group of base for bit positions bitA, bitB, in
\* the order |00>, |01>, |10>, |11> of (qubitA, qubitB)
Group(base, bitA, bitB) ==
    <<base, base + Pow2(bitB), base + Pow2(bitA), base + Pow2(bitA) + Pow2(bitB)>>

\* C5: for every n >= 2 and distinct qubitA, qubitB, in either order,
\* apply_two_qubit_gate transforms each group of four indices that agree
\* outside the two target bits exactly once: 2^(n-2) groups, every
\* amplitude read once and written once, each group receiving the 4x4
\* transform of its values from before the call.
C5_GroupsOnce ==
    Returned("apply_two_qubit_gate") =>
        LET n == inputs.num_qubits
            bitA == n - 1 - inputs.qubit0
            bitB == n - 1 - inputs.qubit1
            g == inputs.gate
            before == inputs.state
            after == heap[state]
            ops == trace.ops
        IN  /\ Len(ops) = Pow2(n - 2)
            /\ \A j \in DOMAIN ops :
                  LET grp == Group(ops[j], bitA, bitB)
                  IN  /\ BitAt(ops[j], bitA) = 0 /\ BitAt(ops[j], bitB) = 0
                      /\ ReadBeforeWritten(trace.log, {grp[c] : c \in 1 .. 4})
                      /\ \A r \in 1 .. 4 :
                            after[grp[r]] =
                              complex_add(
                                complex_add(
                                  complex_mul(g[r - 1][0], before[grp[1]]),
                                  complex_mul(g[r - 1][1], before[grp[2]])),
                                complex_add(
                                  complex_mul(g[r - 1][2], before[grp[3]]),
                                  complex_mul(g[r - 1][3], before[grp[4]])))
            /\ \A k \in Indices(n) :
                  /\ Cardinality({j \in DOMAIN ops :
                        \E c \in 1 .. 4 : Group(ops[j], bitA, bitB)[c] = k}) = 1
                  /\ Cardinality(Writes(trace.log, k)) = 1
                  /\ Cardinality(Reads(trace.log, k)) = 1
                  /\ trace.processed[k] = 1

\* CNOT with the control on the less significant of two non-adjacent bits
C5_Witness ==
    /\ Returned("apply_two_qubit_gate")
    /\ inputs.num_qubits = 3 /\ inputs.qubit0 = 2 /\ inputs.qubit1 = 0
    /\ inputs.gate = GATE_CNOT /\ inputs.state = Ramp(3)
    /\ trace.ops = <<0, 2>>
    /\ heap[state][1] = Ramp(3)[5] /\ heap[state][5] = Ramp(3)[1]

\* the bit of index k that holds the measured qubit of the call
MeasuredBit(k) == BitAt(k, inputs.num_qubits - 1 - inputs.qubit)

RECURSIVE SumIn(_, _)
\* the sum of f over the finite set K
SumIn(f, K) ==
    IF K = {} THEN RZero
    ELSE LET k == CHOOSE x \in K : TRUE IN RAdd(f[k], SumIn(f, K \ {k}))

\* P(outcome): the probability summed over the indices whose measured bit
\* is the requested outcome
OutcomeProbability ==
    SumIn([k \in DOMAIN inputs.state |-> complex_abs_sq(inputs.state[k])],
          {k \in DOMAIN inputs.state : MeasuredBit(k) = inputs.outcome})

\* C6: whenever project_and_normalize returns, the result is as long as the
\* input, is exactly (0, 0) wherever the measured bit differs from outcome,
\* is the input amplitude times 1/sqrt(P(outcome)) elsewhere, and has
\* norm^2 = 1, also for an input that was not normalized.
C6_Projected ==
    Returned("project_and_normalize") =>
        LET before == inputs.state
            result == heap[trace.ref]
        IN  /\ DOMAIN result = DOMAIN before
            /\ \A k \in DOMAIN before :
                  MeasuredBit(k) # inputs.outcome => result[k] = ZERO
            /\ \E root \in RootCands :
                  /\ RSign(root) > 0
                  /\ RMul(root, root) = OutcomeProbability
                  /\ \A k \in DOMAIN before :
                        MeasuredBit(k) = inputs.outcome =>
                            complex_scale(root, result[k]) = before[k]
            /\ Normalized(result)

\* an input of norm^2 = 4 projected onto half of its indices
C6_Witness ==
    /\ Returned("project_and_normalize")
    /\ inputs.state = Ones(2) /\ inputs.qubit = 1 /\ inputs.outcome = 0
    /\ heap[trace.ref] = (0 :> <<SQRT1_2, RZero>>) @@ (1 :> ZERO)
                         @@ (2 :> <<SQRT1_2, RZero>>) @@ (3 :> ZERO)

\* C7: project_and_normalize never modifies its input: after the call,
\* returned or raised, the input list holds what it held before, and a
\* returned vector is a list that did not exist before the call.
C7_InputKept ==
    Called("project_and_normalize") =>
        /\ heap[state] = inputs.state
        /\ pc = "returned" => trace.ref # state /\ trace.ref = Len(heap)
        /\ pc = "raised" => heap = <<inputs.state>>

\* a projection whose result differs from its input, which is still there
C7_Witness ==
    /\ Returned("project_and_normalize")
    /\ inputs.state = Bell /\ inputs.qubit = 0 /\ inputs.outcome = 1
    /\ heap[trace.ref] = Basis(2, 3)
    /\ heap[state] = Bell

\* C8: project_and_normalize fails with ZeroProbabilityOutcome exactly when
\* P(outcome) < 1e-10, and then returns no vector; otherwise it returns one.
\* Projecting qubit 0 of |0> onto outcome 1 fails.
C8_ZeroProbability ==
    Called("project_and_normalize") =>
        /\ pc = "raised" <=> CmpTenPow(OutcomeProbability, 10) < 0
        /\ pc = "raised" =>
              err = "ZeroProbabilityOutcome" /\ trace.ref = 0 /\ Len(heap) = 1
        /\ pc = "returned" => err = "none" /\ trace.ref \in DOMAIN heap
        /\ (inputs.state = Basis(1, 0) /\ inputs.outcome = 1) => pc = "raised"

\* an outcome of probability 2^-40, not zero but below 1e-10, is refused
C8_Witness ==
    /\ Called("project_and_normalize")
    /\ inputs.state = SmallAmp(20) /\ inputs.outcome = 1
    /\ OutcomeProbability = RShift(ROne, 40)
    /\ pc = "raised" /\ err = "ZeroProbabilityOutcome"

GrSingleTarget2 ==
    IsGr /\ inputs.numQubits = 2 /\ Len(inputs.targets) = 1

\* C9: in the 2-qubit Grover run with a single target t, for every t in
\* 0..3: after the Hadamard step all four probabilities are 1/4; after the
\* oracle the amplitude at t is -1/2 and the other three are 1/2; after the
\* one diffusion the probability of t is 1 and the other three are 0.
C9_Grover2 ==
    GrSingleTarget2 =>
        LET t == inputs.targets[1]
            half == <<RShift(ROne, 1), RZero>>
        IN  /\ Len(steps) >= 2 =>
                 /\ steps[2].id = <<"hadamard_all">>
                 /\ steps[2].probabilities = [k \in 0 .. 3 |-> RShift(ROne, 2)]
            /\ Len(steps) >= 3 =>
                 /\ steps[3].id = <<"oracle", 1>>
                 /\ heap[steps[3].stateVector] =
                        [k \in 0 .. 3 |-> IF k = t THEN complex_neg(half) ELSE half]
            /\ Len(steps) >= 4 =>
                 /\ steps[4].id = <<"diffusion", 1>>
                 /\ steps[4].probabilities =
                        [k \in 0 .. 3 |-> IF k = t THEN ROne ELSE RZero]
            /\ Len(steps) >= 5 => steps[5].id = <<"measure">>

\* the run for t = 2, complete
C9_Witness ==
    /\ GrSingleTarget2 /\ inputs.targets = <<2>>
    /\ pc = "returned" /\ Len(steps) = 5
    /\ steps[4].probabilities[2] = ROne

Listed(k, targets) == \E j \in DOMAIN targets : targets[j] = k

\* C10 as stated: after apply_grover_oracle(state, targets) the amplitude at
\* every index listed in targets is the negation of its value before the
\* call, every other amplitude is unchanged, and every measurement
\* probability is unchanged.
C10_AsStated ==
    Returned("apply_grover_oracle") =>
        \A k \in DOMAIN inputs.state :
            /\ Listed(k, inputs.targets) =>
                  heap[state][k] = complex_neg(inputs.state[k])
            /\ ~Listed(k, inputs.targets) => heap[state][k] = inputs.state[k]
            /\ complex_abs_sq(heap[state][k]) = complex_abs_sq(inputs.state[k])
\* the mean of the real (part = 1) or imaginary (part = 2) parts of v
MeanPart(v, part) ==
    RDivPow2(SumIn([k \in DOMAIN v |-> v[k][part]], DOMAIN v), Dim(v))

\* C11: apply_grover_diffusion replaces every amplitude a by 2*mean - a,
\* real and imaginary parts separately, where mean is the mean of the
\* amplitudes as they were before the call: it is computed once and the
\* amplitudes already rewritten do not enter it.
C11_InversionAboutMean ==
    Returned("apply_grover_diffusion") =>
        \A k \in DOMAIN inputs.state :
            heap[state][k] =
                <<RSub(RMul(RInt(2), MeanPart(inputs.state, 1)), inputs.state[k][1]),
                  RSub(RMul(RInt(2), MeanPart(inputs.state, 2)), inputs.state[k][2])>>

\* a vector whose amplitudes all differ, with real and imaginary parts:
\* Ramp(2) has mean (5/2, 5/2), so (1, 4) becomes (4, 1)
C11_Witness ==
    /\ Returned("apply_grover_diffusion")
    /\ inputs.state = Ramp(2)
    /\ heap[state][0] = <<RInt(4), RInt(1)>>
    /\ heap[state][3] = <<RInt(1), RInt(4)>>
\* r = floor(pi/4 * sqrt(N / M)), with 9.8696 < pi^2 < 9.8697:
\* r <= pi/4 sqrt(N/M) < r + 1 iff 16 r^2 M <= pi^2 N < 16 (r+1)^2 M
IsFloorQuarterPiSqrt(r, N, M) ==
    /\ 160000 * r * r * M <= 98696 * N
    /\ 98697 * N < 160000 * (r + 1) * (r + 1) * M

\* the id of the k-th step (k from 1) of a Grover run with R iterations
GrExpectedId(k, R) ==
    IF k = 1 THEN <<"initialize">>
    ELSE IF k = 2 THEN <<"hadamard_all">>
    ELSE IF k = 3 + 2 * R THEN <<"measure">>
    ELSE IF k % 2 = 1 THEN <<"oracle", (k - 1) \div 2>>
    ELSE <<"diffusion", (k - 2) \div 2>>

\* C12: the Grover generator runs exactly R = floor(pi/4 * sqrt(N/M))
\* iterations (R = 1 for N = 4, M = 1; R = 2 for N = 8, M = 1) and emits
\* initialize, hadamard_all, then oracle_i immediately followed by
\* diffusion_i for i = 1..R in increasing i, then the terminal measure
\* step: 3 + 2R steps in all.
C12_GroverStepOrder ==
    IsGr =>
        LET N == Pow2(inputs.numQubits)
            M == Len(inputs.targets)
        IN  \E R \in 0 .. N :
                /\ IsFloorQuarterPiSqrt(R, N, M)
                /\ (N = 4 /\ M = 1) => R = 1
                /\ (N = 8 /\ M = 1) => R = 2
                /\ pc # "raised"
                /\ Len(steps) <= 3 + 2 * R
                /\ pc = "returned" <=> Len(steps) = 3 + 2 * R
                /\ \A k \in DOMAIN steps :
                      /\ steps[k].id = GrExpectedId(k, R)
                      /\ steps[k].is_terminal = (k = 3 + 2 * R)

\* the complete run for N = 8, M = 1: two iterations, seven steps
C12_Witness ==
    /\ IsGr /\ inputs.numQubits = 3 /\ Len(inputs.targets) = 1
    /\ pc = "returned" /\ Len(steps) = 7
    /\ steps[3].id = <<"oracle", 1>> /\ steps[4].id = <<"diffusion", 1>>
    /\ steps[5].id = <<"oracle", 2>> /\ steps[6].id = <<"diffusion", 2>>
    /\ steps[7].id = <<"measure">>
GrSingleTarget3 ==
    IsGr /\ inputs.numQubits = 3 /\ Len(inputs.targets) = 1

\* C13: in the 3-qubit Grover run with a single target (N = 8, M = 1), after
\* the R = 2 oracle/diffusion iterations the probability of the target is
\* above 0.94 and strictly below 1.0, and the state is still normalized.
C13_Grover3 ==
    (GrSingleTarget3 /\ Len(steps) >= 6) =>
        LET t == inputs.targets[1]
            p == steps[6].probabilities[t]
        IN  /\ steps[6].id = <<"diffusion", 2>>
            /\ steps[6].extra.totalIterations = 2
            /\ RLt(RInt(94), RMul(RInt(100), p))
            /\ RLt(p, ROne)
            /\ steps[6].extra.successProbability = p
            /\ Normalized(heap[steps[6].stateVector])
            /\ Len(steps) >= 7 =>
                  /\ steps[7].extra.successProbability = p
                  /\ Normalized(heap[steps[7].stateVector])

\* the spec's case, target 5: the probability is 121/128
C13_Witness ==
    /\ GrSingleTarget3 /\ inputs.targets = <<5>>
    /\ pc = "returned"
    /\ steps[6].probabilities[5] = RShift(RInt(121), 7)
\* X on the last qubit of v (bit 0 of the index): neighbours are exchanged
XOnLastQubit(v) == [k \in DOMAIN v |-> v[IF k % 2 = 0 THEN k + 1 ELSE k - 1]]

\* Z on the last qubit of v: the odd indices change sign
ZOnLastQubit(v) ==
    [k \in DOMAIN v |-> IF k % 2 = 1 THEN complex_neg(v[k]) ELSE v[k]]

\* C14: in the teleportation Correction step X is applied to qubit 2 iff
\* m1 = 1, Z is applied to qubit 2 iff m0 = 1, X comes before Z when both
\* apply, and nothing is applied to qubit 0 or qubit 1: the state recorded
\* after the step is Z^m0 X^m1 on qubit 2 of the state recorded before it.
C14_CorrectionOrder ==
    (IsTp /\ Len(steps) >= 8) =>
        LET m0 == inputs.qubit0
            m1 == inputs.qubit1
            before == heap[steps[7].stateVector]
            after == heap[steps[8].stateVector]
            gates == steps[8].extra.correction
            afterX == IF m1 = 1 THEN XOnLastQubit(before) ELSE before
            afterZ == IF m0 = 1 THEN ZOnLastQubit(afterX) ELSE afterX
        IN  /\ steps[7].id = <<"measure_qubit1">>
            /\ steps[8].id = <<"bob_correction">>
            /\ (\E j \in DOMAIN gates : gates[j] = "X") <=> m1 = 1
            /\ (\E j \in DOMAIN gates : gates[j] = "Z") <=> m0 = 1
            /\ \A j, k \in DOMAIN gates :
                  (gates[j] = "X" /\ gates[k] = "Z") => j < k
            /\ Len(gates) = m0 + m1
            /\ after = afterZ

\* both corrections on a state with two non-zero amplitudes: Z X differs
\* from X Z by the sign
C14_Witness ==
    /\ IsTp /\ Len(steps) >= 8
    /\ inputs.qubit0 = 1 /\ inputs.qubit1 = 1 /\ inputs.theta = 4
    /\ steps[8].extra.correction = <<"X", "Z">>
    /\ heap[steps[8].stateVector] #
          XOnLastQubit(ZOnLastQubit(heap[steps[7].stateVector]))
\* the ids of the teleportation steps, in order
TpStepIds ==
    << <<"initialize">>, <<"bell_hadamard">>, <<"bell_cnot">>, <<"alice_cnot">>,
       <<"alice_hadamard">>, <<"measure_qubit0">>, <<"measure_qubit1">>,
       <<"bob_correction">>, <<"verification">> >>

\* the state vector recorded by the k-th step
TpRecorded(k) == heap[steps[k].stateVector]

\* the state the k-th step must record, given the one recorded before it
TpExpected(k) ==
    LET prev == TpRecorded(k - 1)
    IN  IF k = 2 THEN SingleQubitGateValue(prev, GATE_H, 1, 3)
        ELSE IF k = 3 THEN TwoQubitGateValue(prev, GATE_CNOT, 1, 2, 3)
        ELSE IF k = 4 THEN TwoQubitGateValue(prev, GATE_CNOT, 0, 1, 3)
        ELSE IF k = 5 THEN SingleQubitGateValue(prev, GATE_H, 0, 3)
        ELSE IF k = 6 THEN ProjectValue(prev, 0, inputs.qubit0, 3).new_state
        ELSE IF k = 7 THEN ProjectValue(prev, 1, inputs.qubit1, 3).new_state
        ELSE IF k = 8
        THEN LET x == IF inputs.qubit1 = 1 THEN XOnLastQubit(prev) ELSE prev
             IN  IF inputs.qubit0 = 1 THEN ZOnLastQubit(x) ELSE x
        ELSE prev

\* C15: for every input with m0, m1 in {0, 1} the teleportation run does
\* Initialize, H on qubit 1, CNOT(1,2), CNOT(0,1), H on qubit 0, projection
\* of qubit 0 onto m0, projection of qubit 1 onto m1, Correction, recording
\* one step after each, then one terminal verification step; the ids are
\* the same for every theta, phi, m0, m1 and the run never ends early.
C15_TeleportOrder ==
    IsTp =>
        /\ pc # "raised"
        /\ Len(steps) <= 9
        /\ pc = "returned" <=> Len(steps) = 9
        /\ \A k \in DOMAIN steps :
              /\ steps[k].id = TpStepIds[k]
              /\ steps[k].is_terminal = (k = 9)
              /\ k = 1 =>
                    TpRecorded(1) =
                        [j \in 0 .. 7 |-> IF j = 0 THEN TpOrig[1]
                                          ELSE IF j = 4 THEN TpOrig[2] ELSE ZERO]
              /\ k > 1 => TpRecorded(k) = TpExpected(k)

\* a complete run off the poles with m0 = 0, m1 = 1
C15_Witness ==
    /\ IsTp /\ pc = "returned" /\ Len(steps) = 9
    /\ inputs.theta = 6 /\ inputs.phi = 5
    /\ inputs.qubit0 = 0 /\ inputs.qubit1 = 1
    /\ steps[9].id = <<"verification">>
    /\ TpRecorded(5) # TpRecorded(4)
\* generate of one of the step generators has returned its list
GeneratorReturned == (IsTp \/ IsQg \/ IsGr \/ IsSm) /\ pc = "returned"

\* C16 as stated: for every input, each quantum generator returns a
\* non-empty step list in which step i has index i, the last step has
\* is_terminal = True, and no earlier step is terminal.
C16_AsStated ==
    GeneratorReturned =>
        /\ Len(steps) >= 1
        /\ \A k \in DOMAIN steps :
              /\ steps[k].index = k - 1
              /\ steps[k].is_terminal = (k = Len(steps))
\* the names get_standard_gate and the two-qubit table know
RecognizedGateNames ==
    {"I", "X", "Y", "Z", "H", "S", "T", "Rx", "Ry", "Rz", "CNOT", "CZ", "SWAP"}

\* the entry names no recognized gate, or a parametric gate without angle
Unrecognized(gate_entry) ==
    \/ gate_entry.gate \notin RecognizedGateNames
    \/ gate_entry.gate \in {"Rx", "Ry", "Rz"} /\ gate_entry.angle = None

\* the gate entries of the running generator (none for the other two)
GateEntries ==
    IF IsQg THEN inputs.gates
    ELSE IF IsSm THEN inputs.preparationGates
    ELSE <<>>

\* C17 as stated: in quantum_gates and superposition_measurement every gate
\* entry whose name is not recognized, or that names Rx, Ry, Rz without an
\* angle, makes generate raise UnknownGate before the state vector is
\* changed and before a step for that entry is recorded (entry j would be
\* step j + 1, after initialize), so generate never returns.
C17_AsStated ==
    \A j \in DOMAIN GateEntries :
        Unrecognized(GateEntries[j]) =>
            /\ Len(steps) <= j
            /\ pc # "returned"
            /\ (pc = "raised" /\ Len(steps) = j) =>
                  /\ err = "UnknownGate"
                  /\ heap[state] = heap[Last(steps).stateVector]
\* an error has left the function exactly when it ended by raising
ErrorMeansRaised == (pc = "raised") <=> (err # "none")

\* the step that raises records nothing
RaisingRecordsNothing == pc' = "raised" => steps' = steps /\ idx' = idx

\* nothing is done after the raise: no engine call, no step, no retry, no
\* return
NothingAfterRaise == pc = "raised" => UNCHANGED vars

\* C18: an engine error (ZeroProbabilityOutcome, NotNormalized, UnknownGate)
\* raised inside a quantum generator propagates out of generate at once:
\* no further engine operation, no further step, no retry, and no step
\* list, not even a partial one, is returned.
C18_ErrorsPropagate ==
    /\ [](ErrorMeansRaised)
    /\ [][RaisingRecordsNothing /\ NothingAfterRaise]_vars

\* a measurement run ended by the first of two projections: the second is
\* never made and the only steps are those recorded before
C18_Witness ==
    /\ IsSm /\ pc = "raised" /\ err = "ZeroProbabilityOutcome"
    /\ Len(inputs.measurements) = 2 /\ i = 1
    /\ Len(steps) = 1 + Len(inputs.preparationGates)
    /\ Len(heap[classical_bits]) = 0
\* bit n-1-q of index k: qubit 0 is the most significant bit
QubitBit(k, q, n) == (k \div (2 ^ (n - 1 - q))) % 2

\* k XOR 2^(n-1-q)
QubitFlipped(k, q, n) ==
    IF QubitBit(k, q, n) = 1 THEN k - 2 ^ (n - 1 - q) ELSE k + 2 ^ (n - 1 - q)

\* the probability of the indices of vector v whose bit for qubit q is b
QubitMass(v, q, n, b) ==
    SumIn([k \in DOMAIN v |-> complex_abs_sq(v[k])],
          {k \in DOMAIN v : QubitBit(k, q, n) = b})

\* C19: qubit q of an n-qubit register is bit n-1-q of the basis index: X on
\* qubit q moves the amplitude of every index k to k XOR 2^(n-1-q), and
\* qubit_probabilities and project_and_normalize sort index k by the bit
\* (k >> (n-1-q)) & 1.
C19_QubitIsBit ==
    LET q == inputs.qubit
        n == inputs.num_qubits
        before == inputs.state
    IN  /\ (Returned("apply_single_qubit_gate") /\ inputs.gate = GATE_X) =>
              \A k \in DOMAIN before :
                  heap[state][QubitFlipped(k, q, n)] = before[k]
        /\ Returned("qubit_probabilities") =>
              trace.p = <<QubitMass(before, q, n, 0), QubitMass(before, q, n, 1)>>
        /\ Returned("project_and_normalize") =>
              \A k \in DOMAIN before :
                  /\ QubitBit(k, q, n) # inputs.outcome =>
                        heap[trace.ref][k] = ZERO
                  /\ (QubitBit(k, q, n) = inputs.outcome /\ before[k] # ZERO) =>
                        heap[trace.ref][k] # ZERO

\* the probabilities of qubit 0 of three read from bit 2 of the index: in
\* |100>, index 4, qubit 0 is 1 and qubits 1 and 2 are 0
C19_Witness ==
    /\ Returned("qubit_probabilities")
    /\ inputs.num_qubits = 3 /\ inputs.qubit = 0 /\ inputs.state = Basis(3, 4)
    /\ trace.p = <<RZero, ROne>>
\* C20: applying the Hadamard gate twice to the same qubit returns the state
\* vector to the value it had before the first application (H^2 = I); in
\* particular H applied twice to |0> gives |0>.
C20_HadamardTwice ==
    Returned("h_squared") =>
        /\ heap[state] = inputs.state
        /\ inputs.state = ZeroStateValue(inputs.num_qubits) =>
              heap[state] = ZeroStateValue(inputs.num_qubits)

\* |0> after one Hadamard was (|0> + |1>)/sqrt(2) and after two is |0>
C20_Witness ==
    /\ Returned("h_squared")
    /\ inputs.num_qubits = 1 /\ inputs.state = ZeroStateValue(1)
    /\ trace.once = Uniform(1)
    /\ trace.once # inputs.state
    /\ heap[state] = ZeroStateValue(1)
RECURSIVE ComplexSumIn(_, _)
\* the sum of the complex numbers f[k], k in K
ComplexSumIn(f, K) ==
    IF K = {} THEN ZERO
    ELSE LET k == CHOOSE x \in K : TRUE
         IN  complex_add(f[k], ComplexSumIn(f, K \ {k}))

\* sum over k of U[i][k] * conj(U[j][k])
RowProduct(U, r1, r2) ==
    ComplexSumIn([k \in DOMAIN U[r1] |->
                     complex_mul(U[r1][k], complex_conj(U[r2][k]))],
                 DOMAIN U[r1])

\* C21: every gate of the library (I, X, Y, Z, H, S, T, CNOT, CZ, SWAP,
\* Toffoli, Rx, Ry, Rz at every angle) is unitary: the rows are orthonormal
\* (sum over k of U[i][k]*conj(U[j][k]) is 1 for i = j and 0 otherwise), and
\* is_unitary returns true for it.
C21_GatesUnitary ==
    Returned("is_unitary") =>
        LET U == inputs.matrix
        IN  /\ \A r \in DOMAIN U : DOMAIN U[r] = DOMAIN U
            /\ \A r1 \in DOMAIN U : \A r2 \in DOMAIN U :
                  RowProduct(U, r1, r2) = IF r1 = r2 THEN ONE ELSE ZERO
            /\ trace.result = TRUE

\* is_unitary has returned true for the Toffoli matrix, whose rows 6 and 7
\* are those of the identity exchanged
C21_Witness ==
    /\ Returned("is_unitary")
    /\ inputs.name = "GATE_TOFFOLI"
    /\ inputs.matrix[6][7] = ONE /\ inputs.matrix[7][6] = ONE
    /\ inputs.matrix[6][6] = ZERO /\ inputs.matrix[5][5] = ONE
    /\ trace.result = TRUE
\* |x - y| < 1e-9 on both the real and the imaginary part
Within1e9(x, y) ==
    /\ CmpTenPow(RAbs(RSub(x[1], y[1])), 9) < 0
    /\ CmpTenPow(RAbs(RSub(x[2], y[2])), 9) < 0

\* C22: is_entangled fails with WrongDimension when the state does not have
\* 4 amplitudes; otherwise it returns true exactly when a00*a11 and a01*a10
\* differ by 1e-9 or more: true for the Bell states (|00>+|11>)/sqrt2 and
\* (|01>+|10>)/sqrt2, false for every product of two single-qubit states.
C22_Entangled ==
    Called("is_entangled") =>
        LET v == inputs.state
        IN  /\ Dim(v) # 4 => pc = "raised" /\ err = "WrongDimension"
            /\ Dim(v) = 4 =>
                  /\ pc = "returned" /\ err = "none"
                  /\ trace.result =
                        ~ Within1e9(complex_mul(v[0], v[3]), complex_mul(v[1], v[2]))
                  /\ v \in {Bell, BellPsiPlus} => trace.result = TRUE
                  /\ (\E a \in OneQubitStates : \E b \in OneQubitStates :
                          v = tensor_product(a, b)) => trace.result = FALSE

\* (|01>+|10>)/sqrt2 has been found entangled: a00*a11 = 0, a01*a10 = 1/2
C22_Witness ==
    /\ Returned("is_entangled")
    /\ inputs.state = BellPsiPlus
    /\ complex_mul(inputs.state[1], inputs.state[2]) = <<RShift(ROne, 1), RZero>>
    /\ trace.result = TRUE
\* the outcomes requested by the first k measurements, in order
RequestedOutcomes(k) == [j \in 1 .. k |-> inputs.measurements[j].outcome]

\* C23: in superposition_measurement the step of the k-th measurement
\* carries classicalBits equal to the first k requested outcomes in order,
\* every earlier step (initialize, preparation) carries the empty list, and
\* a list stored in a step is a list of its own, which later measurements
\* do not extend.
C23_ClassicalBits ==
    IsSm =>
        LET np == Len(inputs.preparationGates)
        IN  \A s \in DOMAIN steps :
                /\ steps[s].classicalBits \in DOMAIN heap
                /\ steps[s].classicalBits # classical_bits
                /\ \A t \in DOMAIN steps :
                      t # s => steps[t].classicalBits # steps[s].classicalBits
                /\ heap[steps[s].classicalBits] =
                      IF s <= 1 + np THEN <<>> ELSE RequestedOutcomes(s - 1 - np)

\* two measurements with outcomes 0 then 1 after one preparation gate: the
\* third step kept <<0>> while the fourth got <<0, 1>>
C23_Witness ==
    /\ IsSm /\ pc = "returned"
    /\ Len(inputs.preparationGates) = 1 /\ Len(inputs.measurements) = 2
    /\ inputs.measurements[1].outcome = 0 /\ inputs.measurements[2].outcome = 1
    /\ Len(steps) = 4
    /\ heap[steps[2].classicalBits] = <<>>
    /\ heap[steps[3].classicalBits] = <<0>>
    /\ heap[steps[4].classicalBits] = <<0, 1>>
    /\ heap[classical_bits] = <<0, 1>>
\* the objects that exist once the module is imported
GlobalRefs == 1 .. Len(GlobalHeap)

\* the entries each gate constant has in the source
GateConstants ==
    << <<"I", GATE_I>>, <<"X", GATE_X>>, <<"Y", GATE_Y>>, <<"Z", GATE_Z>>,
       <<"H", GATE_H>>, <<"S", GATE_S>>, <<"T", GATE_T>>,
       <<"CNOT", GATE_CNOT>>, <<"CZ", GATE_CZ>>, <<"SWAP", GATE_SWAP>>,
       <<"TOFFOLI", GATE_TOFFOLI>> >>

\* C24: whatever engine calls are made (get_standard_gate, the gate
\* applications, the recording of showGateMatrix), every gate constant
\* GATE_I ... GATE_TOFFOLI keeps its initial entries, and a matrix recorded
\* in a step shares no list with a gate constant.
C24_GateConstantsKept ==
    IsSession =>
        /\ \A k \in DOMAIN GateConstants :
              MatrixValue(heap, GateRefs[GateConstants[k][1]]) = GateConstants[k][2]
        /\ \A ref \in GlobalRefs : heap[ref] = GlobalHeap[ref]
        /\ \A s \in DOMAIN steps :
              /\ steps[s] \notin GlobalRefs
              /\ \A r \in DOMAIN heap[steps[s]] : heap[steps[s]][r] \notin GlobalRefs

\* H was looked up, applied and recorded: the recorded matrix has the
\* entries of GATE_H in lists of its own, and GATE_H is what it was
C24_Witness ==
    /\ IsSession /\ i = MaxSessionCalls
    /\ trace = <<GateRefs["H"]>>
    /\ heap[state] # ZeroStateValue(inputs.numQubits)
    /\ Len(steps) = 1
    /\ MatrixValue(heap, steps[1]) = GATE_H
    /\ steps[1] # GateRefs["H"]
    /\ MatrixValue(heap, GateRefs["H"]) = GATE_H
\* |returned theta - theta| < 1e-9: angles that are multiples of pi/8 differ
\* by at least pi/8 or not at all, and 2^-small is compared with 1e-9
ThetaRecovered(theta, returned) ==
    IF theta.small = 0 THEN returned = theta.units
    ELSE returned = 0 /\ CmpTenPow(RShift(ROne, theta.small), 9) < 0

\* C25: for every theta in (0, pi) and phi in [0, 2 pi),
\* state_to_bloch_angles(bloch_angles_to_state(theta, phi)) returns
\* (theta, phi) within 1e-9.
C25_AsStated ==
    Returned("bloch_round_trip") =>
        /\ ThetaRecovered(inputs.theta, trace.result[1])
        /\ trace.result[2] = inputs.phi
\* where CNOT(c, t) on n qubits sends basis index k
CnotImage(k, c, t, n) ==
    IF QubitBit(k, c, n) = 1 THEN QubitFlipped(k, t, n) ELSE k

\* C26: apply_two_qubit_gate with GATE_CNOT takes its first qubit argument
\* as the control and its second as the target for every pair of distinct
\* qubits, c < t or c > t: the amplitude of index k moves to
\* k XOR 2^(n-1-t) when bit n-1-c of k is 1 and stays otherwise; so CNOT(0,1)
\* after H on qubit 0 of |00> leaves 1/sqrt2 at indices 0 and 3 and zero at
\* indices 1 and 2.
C26_CnotControlTarget ==
    (Returned("apply_two_qubit_gate") /\ inputs.gate = GATE_CNOT) =>
        LET c == inputs.qubit0
            t == inputs.qubit1
            n == inputs.num_qubits
            before == inputs.state
            after == heap[state]
        IN  /\ \A k \in DOMAIN before : after[CnotImage(k, c, t, n)] = before[k]
            /\ (n = 2 /\ c = 0 /\ t = 1
                /\ before = SingleQubitGateValue(ZeroStateValue(2), GATE_H, 0, 2)) =>
                  /\ after[0] = <<SQRT1_2, RZero>> /\ after[3] = <<SQRT1_2, RZero>>
                  /\ after[1] = ZERO /\ after[2] = ZERO

\* CNOT with control qubit 2 and target qubit 0 of three (c > t): |001>,
\* index 1, has become |101>, index 5
C26_Witness ==
    /\ Returned("apply_two_qubit_gate") /\ inputs.gate = GATE_CNOT
    /\ inputs.num_qubits = 3 /\ inputs.qubit0 = 2 /\ inputs.qubit1 = 0
    /\ inputs.state = Basis(3, 1)
    /\ heap[state] = Basis(3, 5)
\* the probability that qubits 0 and 1 of the 3-qubit vector v read a, b
PairProbability(v, a, b) ==
    RAdd(complex_abs_sq(v[4 * a + 2 * b]), complex_abs_sq(v[4 * a + 2 * b + 1]))

\* C27: in the teleportation run, for every input (theta, phi), after
\* Alice's H on qubit 0 each outcome 00, 01, 10, 11 of qubits 0 and 1 has
\* probability 1/4; the probability recorded for m0 is 1/2, the one recorded
\* for m1 (on the state collapsed on m0) is 1/2, and no projection raises
\* ZeroProbabilityOutcome, whatever m0 and m1 are.
C27_UniformOutcomes ==
    IsTp =>
        /\ err # "ZeroProbabilityOutcome"
        /\ Len(steps) >= 5 =>
              \A a \in {0, 1} : \A b \in {0, 1} :
                  PairProbability(heap[steps[5].stateVector], a, b) = RShift(ROne, 2)
        /\ Len(steps) >= 6 => steps[6].extra.probability = RShift(ROne, 1)
        /\ Len(steps) >= 7 => steps[7].extra.probability = RShift(ROne, 1)
        /\ pc \in {"bob_correction", "verification", "returned"} => Len(steps) >= 7

\* a state with unequal amplitudes (theta = pi/4) measured as m0 = 1,
\* m1 = 1, each with recorded probability 1/2
C27_Witness ==
    /\ IsTp /\ pc = "returned"
    /\ inputs.theta = 2 /\ inputs.phi = 3
    /\ inputs.qubit0 = 1 /\ inputs.qubit1 = 1
    /\ steps[5].id = <<"alice_hadamard">>
    /\ steps[6].id = <<"measure_qubit0">> /\ steps[6].extra.probability = RShift(ROne, 1)
    /\ steps[7].id = <<"measure_qubit1">> /\ steps[7].extra.probability = RShift(ROne, 1)
RECURSIVE KroneckerFrom(_, _, _, _)
\* F_p (x) F_(p+1) (x) ... (x) F_(n-1), where F_q = G and every other factor
\* is the identity
KroneckerFrom(G, q, n, p) ==
    LET factor == IF p = q THEN G ELSE GATE_I
    IN  IF p = n - 1 THEN factor
        ELSE matrix_tensor_product(factor, KroneckerFrom(G, q, n, p + 1))

\* the product of matrix U and vector v
MatrixTimesVector(U, v) ==
    [r \in DOMAIN U |->
        ComplexSumIn([c \in DOMAIN v |-> complex_mul(U[r][c], v[c])], DOMAIN v)]

\* C28: the in-place pairwise algorithm of apply_single_qubit_gate leaves
\* the vector obtained by multiplying the state by the 2^n x 2^n Kronecker
\* matrix I x ... x G x ... x I with G at qubit position q, built with
\* matrix_tensor_product, for all n <= 3, all q and all 2x2 gates G.
C28_KroneckerEquivalent ==
    Returned("apply_single_qubit_gate") =>
        LET U == KroneckerFrom(inputs.gate, inputs.qubit, inputs.num_qubits, 0)
        IN  /\ Cardinality(DOMAIN U) = Pow2(inputs.num_qubits)
            /\ heap[state] = MatrixTimesVector(U, inputs.state)

\* Ry(pi/4), which is not symmetric, applied to the middle qubit of three on
\* a vector without zero entries
C28_Witness ==
    /\ Returned("apply_single_qubit_gate")
    /\ inputs.num_qubits = 3 /\ inputs.qubit = 1
    /\ inputs.gate = gate_ry(2) /\ inputs.state = Ramp(3)
    /\ heap[state] # inputs.state
    /\ heap[state][0] = complex_sub(complex_scale(Cos(1), Ramp(3)[0]),
                                    complex_scale(Sin(1), Ramp(3)[2]))
\* v is zero outside the indices base and base | 1, base = m0<<2 | m1<<1
InMeasuredPair(v) ==
    \A k \in DOMAIN v :
        k \notin {TpBase, TpBase + 1} => v[k] = ZERO

\* C29: after the two projections of the teleportation run (qubit 0 onto
\* m0, then qubit 1 onto m1) and through the correction and verification
\* steps, every amplitude of the 3-qubit state outside the indices base and
\* base|1 is zero: qubits 0 and 1 stay at the measured values and the
\* correction on qubit 2 moves no amplitude out of the pair.
C29_MeasuredPairOnly ==
    IsTp =>
        /\ \A s \in DOMAIN steps :
              s >= 7 =>
                  /\ InMeasuredPair(heap[steps[s].stateVector])
                  /\ steps[s].amplitudes # 0 =>
                        InMeasuredPair(heap[steps[s].amplitudes])
        /\ pc \in {"bob_correction", "verification", "returned"} =>
              /\ InMeasuredPair(heap[state])
              /\ Normalized(heap[state])

\* m0 = m1 = 1: after X and Z on qubit 2 the whole state sits on indices 6
\* and 7, both amplitudes nonzero
C29_Witness ==
    /\ IsTp /\ pc = "returned"
    /\ inputs.qubit0 = 1 /\ inputs.qubit1 = 1 /\ inputs.theta = 2 /\ inputs.phi = 5
    /\ TpBase = 6
    /\ heap[steps[8].stateVector][6] # ZERO /\ heap[steps[8].stateVector][7] # ZERO
    /\ heap[steps[8].stateVector] # heap[steps[7].stateVector]
    /\ \A k \in 0 .. 5 : heap[state][k] = ZERO
\* the sum over k of |v[k]|^2
NormSquared(v) ==
    SumIn([k \in DOMAIN v |-> complex_abs_sq(v[k])], DOMAIN v)

\* C30: apply_grover_diffusion is a norm-preserving involution: the sum of
\* |amplitude_k|^2 is the same before and after one application, and two
\* applications in a row restore every amplitude.
C30_DiffusionInvolution ==
    (IsEngine /\ inputs.op = "diffusion_twice") =>
        /\ pc = "once" =>
              /\ NormSquared(heap[state]) = NormSquared(inputs.state)
              /\ trace.once = heap[state]
        /\ pc = "returned" =>
              /\ NormSquared(trace.once) = NormSquared(inputs.state)
              /\ heap[state] = inputs.state

\* a vector that is not normalized and not uniform: one diffusion changed
\* it, keeping norm^2 = 60, and the second restored it
C30_Witness ==
    /\ Returned("diffusion_twice")
    /\ inputs.state = Ramp(2)
    /\ trace.once # inputs.state
    /\ NormSquared(trace.once) = RInt(60)
    /\ heap[state] = Ramp(2)
====
